---------------------------- MODULE Spec2Model ----------------------------
(***************************************************************************)
(* Model of the note composer automation (src/README.md): the Markdown     *)
(* block classifier, the inline style segmenter, the shortcut typist, the  *)
(* polling element locator, the composer fill flow of main, the front      *)
(* matter splitter, the auto-heading inserter and the quote selector.      *)
(*                                                                         *)
(* Text is a sequence of one-character strings.  Each component has its    *)
(* own specification (SpecTypist, SpecLocator, ...); the variables of the  *)
(* other components stay at their idle values.                             *)
(***************************************************************************)
EXTENDS Integers, Sequences, FiniteSets, TLC

VARIABLES
    \* typeBodyWithShortcuts
    body, lines, i, inCodeBlock, currentBlock, keys, postParseInlineStyles,
    commandKey, tpc,
    \* parseBlockLine / parseInlineSegments applied to one line
    pLine, pInCode, pBlock, pSegments, ppc,
    \* findFirstVisibleHandle and the page it polls
    selectors, timeoutMs, elements, pageChanges, now, roundStart, inspectTime,
    idx, handle, created, handles, inspected, result, lpc,
    \* main from the draft on, fillPostComposer and what follows it
    generateArticle, hasPostBody, openPostPage, fillPostTitle, fillPostBody,
    hasPostAction, draftArticle, titleValue, bodyTextLength, did, undisposed,
    exitCode, mpc,
    \* parseFrontMatter
    content, matterLines, lineAt, currentKey, attributes, fmBody, fpc,
    \* applyAutoHeadings and its configuration
    rawBody, autoHeadings, autoHeadingMinParagraphs, autoHeadingParagraphTarget,
    h2Every, h3Every, h2Prefix, h3Prefix, formattedBody, formattedAgain, hpc,
    \* selectQuotes and its parameters
    limit, perPageLimit, minLength, maxLength, quotes, seen, addedForPage,
    pageAt, blockAt, quoteBlock, qpc,
    \* the title of the draft
    postTitleOverride, draftAttributes, generatedTitle, pageTitles, draftKind,
    draftTitle, tlpc,
    \* the length limit of a generated body
    bodyWithHeadings, articleCharMax, trimmedBody, cpc

typistVars == <<body, lines, i, inCodeBlock, currentBlock, keys,
                postParseInlineStyles, commandKey, tpc>>
parserVars == <<pLine, pInCode, pBlock, pSegments, ppc>>
locatorVars == <<selectors, timeoutMs, elements, pageChanges, now, roundStart,
                 inspectTime, idx, handle, created, handles, inspected, result, lpc>>
composerVars == <<generateArticle, hasPostBody, openPostPage, fillPostTitle,
                  fillPostBody, hasPostAction, draftArticle, titleValue,
                  bodyTextLength, did, undisposed, exitCode, mpc>>
frontMatterVars == <<content, matterLines, lineAt, currentKey, attributes, fmBody, fpc>>
headingsVars == <<rawBody, autoHeadings, autoHeadingMinParagraphs,
                  autoHeadingParagraphTarget, h2Every, h3Every, h2Prefix, h3Prefix,
                  formattedBody, formattedAgain, hpc>>
quotesVars == <<limit, perPageLimit, minLength, maxLength, quotes, seen,
                addedForPage, pageAt, blockAt, quoteBlock, qpc>>
titleVars == <<postTitleOverride, draftAttributes, generatedTitle, pageTitles,
               draftKind, draftTitle, tlpc>>
clampVars == <<bodyWithHeadings, articleCharMax, trimmedBody, cpc>>
vars == <<typistVars, parserVars, locatorVars, composerVars, frontMatterVars,
          headingsVars, quotesVars, titleVars, clampVars>>

\* What a step of one component leaves alone.
OnlyTypist ==
    UNCHANGED <<parserVars, locatorVars, composerVars, frontMatterVars,
                headingsVars, quotesVars, titleVars, clampVars>>
OnlyParser ==
    UNCHANGED <<typistVars, locatorVars, composerVars, frontMatterVars,
                headingsVars, quotesVars, titleVars, clampVars>>
OnlyLocator ==
    UNCHANGED <<typistVars, parserVars, composerVars, frontMatterVars,
                headingsVars, quotesVars, titleVars, clampVars>>
OnlyComposer ==
    UNCHANGED <<typistVars, parserVars, locatorVars, frontMatterVars,
                headingsVars, quotesVars, titleVars, clampVars>>
OnlyFrontMatter ==
    UNCHANGED <<typistVars, parserVars, locatorVars, composerVars,
                headingsVars, quotesVars, titleVars, clampVars>>
OnlyHeadings ==
    UNCHANGED <<typistVars, parserVars, locatorVars, composerVars,
                frontMatterVars, quotesVars, titleVars, clampVars>>
OnlyQuotes ==
    UNCHANGED <<typistVars, parserVars, locatorVars, composerVars,
                frontMatterVars, headingsVars, titleVars, clampVars>>
OnlyTitle ==
    UNCHANGED <<typistVars, parserVars, locatorVars, composerVars,
                frontMatterVars, headingsVars, quotesVars, clampVars>>
OnlyClamp ==
    UNCHANGED <<typistVars, parserVars, locatorVars, composerVars,
                frontMatterVars, headingsVars, quotesVars, titleVars>>

-----------------------------------------------------------------------------
(* Text helpers (JavaScript string primitives the code relies on).         *)

\* \s of a JavaScript regular expression, restricted to the model's alphabet.
IsSpace(c) == c \in {" ", "\t", "\n", "\r"}

IsDigit(c) == c \in {"0", "1", "2", "3", "4", "5", "6", "7", "8", "9"}

\* s.slice(from - 1) for a 1-based index from.
Drop(s, n) == IF n >= Len(s) THEN <<>> ELSE SubSeq(s, n + 1, Len(s))

Take(s, n) == IF n <= 0 THEN <<>> ELSE SubSeq(s, 1, IF n > Len(s) THEN Len(s) ELSE n)

\* s.startsWith(p, at - 1) for a 1-based index at.
StartsWithAt(s, p, at) ==
    /\ at + Len(p) - 1 <= Len(s)
    /\ \A k \in 1..Len(p) : s[at + k - 1] = p[k]

StartsWith(s, p) == StartsWithAt(s, p, 1)

\* The first index >= at that holds no whitespace (Len(s) + 1 when there is none).
RECURSIVE SkipSpace(_, _)
SkipSpace(s, at) ==
    IF at > Len(s) \/ ~IsSpace(s[at]) THEN at ELSE SkipSpace(s, at + 1)

RECURSIVE SkipDigits(_, _)
SkipDigits(s, at) ==
    IF at > Len(s) \/ ~IsDigit(s[at]) THEN at ELSE SkipDigits(s, at + 1)

\* String.prototype.trimStart
TrimStart(s) == Drop(s, SkipSpace(s, 1) - 1)

RECURSIVE TrimEnd(_)
TrimEnd(s) ==
    IF s = <<>> \/ ~IsSpace(s[Len(s)]) THEN s ELSE TrimEnd(Take(s, Len(s) - 1))

\* String.prototype.trim
Trim(s) == TrimEnd(TrimStart(s))

\* Array.prototype.join with a separator text.
RECURSIVE Join(_, _)
Join(parts, sep) ==
    IF parts = <<>> THEN <<>>
    ELSE IF Len(parts) = 1 THEN parts[1]
    ELSE parts[1] \o sep \o Join(Tail(parts), sep)

\* s.split('\n'): the pieces between line feeds; the empty text gives one
\* empty piece.
RECURSIVE SplitAt(_, _, _)
SplitAt(s, at, cur) ==
    IF at > Len(s) THEN <<cur>>
    ELSE IF s[at] = "\n" THEN <<cur>> \o SplitAt(s, at + 1, <<>>)
    ELSE SplitAt(s, at + 1, Append(cur, s[at]))

SplitLines(s) == SplitAt(s, 1, <<>>)

-----------------------------------------------------------------------------
(* Markdown block classifier.                                              *)

\* The backquote character (U+0060), which a TLA+ string cannot hold.
Backtick == "backtick"

\* isCodeFence: the trimmed line starts with three backquotes.
isCodeFence(line) == StartsWith(Trim(line), <<Backtick, Backtick, Backtick>>)

\* The length of the leading block marker of t (marker and the whitespace
\* after it) for each regular expression of parseBlockLine; 0 when the
\* expression does not match.
H3MarkerLen(t) ==
    IF StartsWith(t, <<"#", "#", "#">>) /\ Len(t) >= 4 /\ IsSpace(t[4])
    THEN SkipSpace(t, 4) - 1 ELSE 0

H2MarkerLen(t) ==
    IF StartsWith(t, <<"#", "#">>) /\ Len(t) >= 3 /\ IsSpace(t[3])
    THEN SkipSpace(t, 3) - 1
    ELSE IF StartsWith(t, <<"#">>) /\ Len(t) >= 2 /\ IsSpace(t[2])
    THEN SkipSpace(t, 2) - 1 ELSE 0

QuoteMarkerLen(t) ==
    IF StartsWith(t, <<">">>) /\ Len(t) >= 2 /\ IsSpace(t[2])
    THEN SkipSpace(t, 2) - 1 ELSE 0

OlMarkerLen(t) ==
    LET d == SkipDigits(t, 1)
    IN  IF d > 1 /\ d + 1 <= Len(t) /\ t[d] = "." /\ IsSpace(t[d + 1])
        THEN SkipSpace(t, d + 1) - 1 ELSE 0

\* A slip: the plus sign is not taken as a list marker.
UlMarkerLenNoPlus(t) ==
    IF Len(t) >= 2 /\ t[1] \in {"-", "*"} /\ IsSpace(t[2])
    THEN SkipSpace(t, 2) - 1 ELSE 0

UlMarkerLen(t) ==
    IF Len(t) >= 2 /\ t[1] \in {"-", "*", "+"} /\ IsSpace(t[2])
    THEN SkipSpace(t, 2) - 1 ELSE 0

\* A slip: the markers are looked for inside a code block too.
parseBlockLineIgnoringCode(line, inCode) ==
    LET trimmedStart == TrimStart(line)
    IN  IF H3MarkerLen(trimmedStart) > 0
        THEN [kind |-> "h3", text |-> Drop(trimmedStart, H3MarkerLen(trimmedStart))]
        ELSE IF H2MarkerLen(trimmedStart) > 0
        THEN [kind |-> "h2", text |-> Drop(trimmedStart, H2MarkerLen(trimmedStart))]
        ELSE [kind |-> IF inCode THEN "code" ELSE "paragraph", text |-> line]

\* parseBlockLine: the first matching expression decides the kind.
parseBlockLine(line, inCode) ==
    LET trimmedStart == TrimStart(line)
    IN  IF inCode THEN [kind |-> "code", text |-> line]
        ELSE IF H3MarkerLen(trimmedStart) > 0
        THEN [kind |-> "h3", text |-> Drop(trimmedStart, H3MarkerLen(trimmedStart))]
        ELSE IF H2MarkerLen(trimmedStart) > 0
        THEN [kind |-> "h2", text |-> Drop(trimmedStart, H2MarkerLen(trimmedStart))]
        ELSE IF QuoteMarkerLen(trimmedStart) > 0
        THEN [kind |-> "quote", text |-> Drop(trimmedStart, QuoteMarkerLen(trimmedStart))]
        ELSE IF OlMarkerLen(trimmedStart) > 0
        THEN [kind |-> "ol", text |-> Drop(trimmedStart, OlMarkerLen(trimmedStart))]
        ELSE IF UlMarkerLen(trimmedStart) > 0
        THEN [kind |-> "ul", text |-> Drop(trimmedStart, UlMarkerLen(trimmedStart))]
        ELSE [kind |-> "paragraph", text |-> line]

-----------------------------------------------------------------------------
(* Inline style segmenter.                                                 *)

BoldMarker == <<"*", "*">>
StrikeMarker == <<"~", "~">>

\* A slip: an empty buffer is pushed as a segment too.
flushKeepEmpty(segments, buffer, bold, strike) ==
    Append(segments, [text |-> buffer, bold |-> bold, strike |-> strike])

\* flush of parseInlineSegments: the buffered text becomes a segment with the
\* flags as they are now; an empty buffer adds nothing.
flush(segments, buffer, bold, strike) ==
    IF buffer = <<>> THEN segments
    ELSE Append(segments, [text |-> buffer, bold |-> bold, strike |-> strike])

\* A slip: the flag is flipped before the buffered text is flushed.
onBoldMarkerFlipFirst(segments, buffer, bold, strike) ==
    [segments |-> flush(segments, buffer, ~bold, strike),
     bold |-> ~bold, strike |-> strike]

\* The bold marker: flush(); bold = !bold
onBoldMarker(segments, buffer, bold, strike) ==
    [segments |-> flush(segments, buffer, bold, strike),
     bold |-> ~bold, strike |-> strike]

\* The strike marker: flush(); strike = !strike
onStrikeMarker(segments, buffer, bold, strike) ==
    [segments |-> flush(segments, buffer, bold, strike),
     bold |-> bold, strike |-> ~strike]

\* The scanning loop of parseInlineSegments from index at.
RECURSIVE InlineScan(_, _, _, _, _, _)
InlineScan(line, at, segments, buffer, bold, strike) ==
    IF at > Len(line) THEN flush(segments, buffer, bold, strike)
    ELSE IF StartsWithAt(line, BoldMarker, at)
    THEN LET r == onBoldMarker(segments, buffer, bold, strike)
         IN  InlineScan(line, at + 2, r.segments, <<>>, r.bold, r.strike)
    ELSE IF StartsWithAt(line, StrikeMarker, at)
    THEN LET r == onStrikeMarker(segments, buffer, bold, strike)
         IN  InlineScan(line, at + 2, r.segments, <<>>, r.bold, r.strike)
    ELSE InlineScan(line, at + 1, segments, Append(buffer, line[at]), bold, strike)

parseInlineSegments(line) == InlineScan(line, 1, <<>>, <<>>, FALSE, FALSE)


-----------------------------------------------------------------------------
(* One line through the classifier and the segmenter, as the typist does   *)
(* it for each line (typeBodyWithShortcuts, typeLineWithInlineStyles).     *)

MaxLineLen == 4

SeqsUpTo(S, n) == UNION {[1..k -> S] : k \in 0..n}

ParserAlphabet == {"#", " ", "a", "*", "~", "-", "+", "1", ".", ">"}

\* Lines of the specification's examples, longer than MaxLineLen.
ExampleLines ==
    { <<"a", "*", "*", "b", "*", "*", "c">>,
      <<"#", "#", "#", " ", "a", "~", "~", "b">>,
      <<" ", "1", "1", ".", " ", " ", "*", "*", "a">>,
      <<"*", " ", "*", "*", "*", "a", "~", "~", "~">> }

ParserLines == SeqsUpTo(ParserAlphabet, MaxLineLen) \cup ExampleLines

NoBlock == [kind |-> "none", text |-> <<>>]

ParserInit ==
    /\ pLine \in ParserLines
    /\ pInCode \in BOOLEAN
    /\ pBlock = NoBlock
    /\ pSegments = <<>>
    /\ ppc = "classify"

ParserIdle ==
    /\ pLine = <<>>
    /\ pInCode = FALSE
    /\ pBlock = NoBlock
    /\ pSegments = <<>>
    /\ ppc = "idle"

\* const { kind, text } = parseBlockLine(rawLine, inCodeBlock)
ClassifyLine ==
    /\ ppc = "classify"
    /\ pBlock' = parseBlockLine(pLine, pInCode)
    /\ ppc' = "type"
    /\ UNCHANGED <<pLine, pInCode, pSegments>>
    /\ OnlyParser

\* typeLineWithInlineStyles with parseInline (kind is not code): the text is
\* segmented.
SegmentLine ==
    /\ ppc = "type"
    /\ pBlock.kind # "code"
    /\ pSegments' = parseInlineSegments(pBlock.text)
    /\ ppc' = "segmented"
    /\ UNCHANGED <<pLine, pInCode, pBlock>>
    /\ OnlyParser

\* typeLineWithInlineStyles without parseInline (kind code): the text is
\* typed as it is, in one piece.
VerbatimLine ==
    /\ ppc = "type"
    /\ pBlock.kind = "code"
    /\ pSegments' = IF pBlock.text = <<>> THEN <<>>
                    ELSE <<[text |-> pBlock.text, bold |-> FALSE, strike |-> FALSE]>>
    /\ ppc' = "verbatim"
    /\ UNCHANGED <<pLine, pInCode, pBlock>>
    /\ OnlyParser

ParserNext == ClassifyLine \/ SegmentLine \/ VerbatimLine


-----------------------------------------------------------------------------
(* Editor command translator: typeBodyWithShortcuts and what it calls.     *)
(* keys is the sequence of keyboard events sent to the page.               *)

\* The events page.keyboard receives.
KeyCombo(combo) == [op |-> "shortcut", combo |-> combo, text |-> <<>>]
KeyType(text) == [op |-> "type", combo |-> <<>>, text |-> text]
KeyEnter == [op |-> "press", combo |-> <<"Enter">>, text |-> <<>>]

\* pressShortcut: the modifiers go down, the last key is pressed, the
\* modifiers go up; one event of the whole combination.
pressShortcut(combo) == <<KeyCombo(combo)>>

\* applyBlockShortcut: the fixed combination of each block kind.
applyBlockShortcut(cmd, kind) ==
    CASE kind = "paragraph" -> pressShortcut(<<cmd, "Alt", "Digit0">>)
      [] kind = "h2" -> pressShortcut(<<cmd, "Alt", "Digit2">>)
      [] kind = "h3" -> pressShortcut(<<cmd, "Alt", "Digit3">>)
      [] kind = "ul" -> pressShortcut(<<cmd, "Shift", "Digit8">>)
      [] kind = "ol" -> pressShortcut(<<cmd, "Shift", "Digit7">>)
      [] kind = "quote" -> pressShortcut(<<"Control", "Shift", "Period">>)
      [] kind = "code" -> pressShortcut(<<cmd, "Alt", "Backslash">>)
      [] OTHER -> <<>>

\* A slip: a style is toggled whenever the next run has it on, whatever the
\* running state is.
applyInlineStylesOfNext(cmd, current, next) ==
    (IF next.bold THEN pressShortcut(<<cmd, "KeyB">>) ELSE <<>>)
    \o (IF next.strike THEN pressShortcut(<<cmd, "Shift", "KeyX">>) ELSE <<>>)

\* applyInlineStyles: the toggles that take current to next, bold first.
applyInlineStyles(cmd, current, next) ==
    (IF current.bold # next.bold
     THEN pressShortcut(<<cmd, "KeyB">>) ELSE <<>>)
    \o (IF current.strike # next.strike
        THEN pressShortcut(<<cmd, "Shift", "KeyX">>) ELSE <<>>)

NoStyle == [bold |-> FALSE, strike |-> FALSE]

\* A slip: the styles are not switched off after the last segment.
RECURSIVE TypeSegmentsNoReset(_, _, _, _)
TypeSegmentsNoReset(cmd, segments, k, state) ==
    IF k > Len(segments) THEN <<>>
    ELSE applyInlineStyles(cmd, state, segments[k])
         \o (IF Len(segments[k].text) > 0 THEN <<KeyType(segments[k].text)>> ELSE <<>>)
         \o TypeSegmentsNoReset(cmd, segments, k + 1,
                                [bold |-> segments[k].bold, strike |-> segments[k].strike])

\* The loop of typeLineWithInlineStyles over the segments from index k, and
\* the reset of the styles after the last one.
RECURSIVE TypeSegments(_, _, _, _)
TypeSegments(cmd, segments, k, state) ==
    IF k > Len(segments) THEN applyInlineStyles(cmd, state, NoStyle)
    ELSE applyInlineStyles(cmd, state, segments[k])
         \o (IF Len(segments[k].text) > 0 THEN <<KeyType(segments[k].text)>> ELSE <<>>)
         \o TypeSegments(cmd, segments, k + 1,
                         [bold |-> segments[k].bold, strike |-> segments[k].strike])

typeLineWithInlineStyles(cmd, line, parseInline) ==
    IF ~parseInline
    THEN (IF Len(line) > 0 THEN <<KeyType(line)>> ELSE <<>>)
    ELSE TypeSegments(cmd, parseInlineSegments(line), 1, NoStyle)

MaxLines == 3

LinePrefixes ==
    { <<>>, <<"#", "#", " ">>, <<"#", "#", "#", " ">>, <<"-", " ">>,
      <<"1", ".", " ">>, <<">", " ">> }

\* Lines with inline markers: an open bold run with an open strike run, and
\* a list item with a closed bold run.
StyledLines ==
    { <<"*", "*", "a", "~", "~", "b">>,
      <<"-", " ", "a", "*", "*", "b", "*", "*">> }

TypistLines ==
    {p \o <<"a">> : p \in LinePrefixes}
    \cup StyledLines
    \cup { <<>>, <<Backtick, Backtick, Backtick>>, <<" ", Backtick, Backtick, Backtick, "a">> }

\* The body of the specification's example: a level-2 heading line and a
\* paragraph line with a bold run.
ExampleBody ==
    <<"#", "#", " ", "I", "n", "t", "r", "o", "\n",
      "*", "*", "b", "o", "l", "d", "*", "*", " ", "t", "e", "x", "t">>

TypistBodies ==
    {Join(ls, <<"\n">>) : ls \in UNION {[1..n -> TypistLines] : n \in 1..MaxLines}}
    \cup {ExampleBody}

TypistInit ==
    /\ body \in TypistBodies
    /\ postParseInlineStyles \in BOOLEAN
    /\ commandKey \in {"Meta", "Control"}
    /\ lines = <<>>
    /\ i = 0
    /\ inCodeBlock = FALSE
    /\ currentBlock = "paragraph"
    /\ keys = <<>>
    /\ tpc = "start"

TypistIdle ==
    /\ body = <<>>
    /\ postParseInlineStyles = TRUE
    /\ commandKey = "Control"
    /\ lines = <<>>
    /\ i = 0
    /\ inCodeBlock = FALSE
    /\ currentBlock = "paragraph"
    /\ keys = <<>>
    /\ tpc = "idle"

\* const lines = body.replace(/\r\n/g, '\n').split('\n')
StartTyping ==
    /\ tpc = "start"
    /\ lines' = SplitLines(body)
    /\ tpc' = "loop"
    /\ UNCHANGED <<body, postParseInlineStyles, commandKey, i, inCodeBlock,
                   currentBlock, keys>>
    /\ OnlyTypist

rawLine == lines[i + 1]
nextLine == IF i + 1 < Len(lines) THEN lines[i + 2] ELSE <<>>

\* A fence line toggles the code mode and issues the code shortcut.
TypeFenceLine ==
    /\ tpc = "loop" /\ i < Len(lines)
    /\ isCodeFence(rawLine)
    /\ keys' = keys \o applyBlockShortcut(commandKey, "code")
    /\ inCodeBlock' = ~inCodeBlock
    /\ currentBlock' = IF inCodeBlock THEN "paragraph" ELSE "code"
    /\ i' = i + 1
    /\ UNCHANGED <<body, postParseInlineStyles, commandKey, lines, tpc>>
    /\ OnlyTypist

\* A slip: a blank line leaves the running block kind as it is.
blockAfterBlankKept(current) == current

\* currentBlock = 'paragraph' after a blank line, whatever it was.
blockAfterBlank(current) == "paragraph"

\* A blank line outside a code block: Enter, and the block is a paragraph.
TypeBlankLine ==
    /\ tpc = "loop" /\ i < Len(lines)
    /\ ~isCodeFence(rawLine)
    /\ Trim(rawLine) = <<>> /\ ~inCodeBlock
    /\ keys' = Append(keys, KeyEnter)
    /\ currentBlock' = blockAfterBlank(currentBlock)
    /\ i' = i + 1
    /\ UNCHANGED <<body, postParseInlineStyles, commandKey, lines, inCodeBlock, tpc>>
    /\ OnlyTypist

\* A slip: a list or a quote is never left.
leavesContainerNever(kind, nextKind) == FALSE

\* A slip: a list or a quote is left after every line.
leavesContainerAlways(kind, nextKind) == kind \in {"ul", "ol", "quote"}

\* (kind === 'ul' || kind === 'ol' || kind === 'quote') && nextKind !== kind
leavesContainer(kind, nextKind) ==
    kind \in {"ul", "ol", "quote"} /\ nextKind # kind

\* Any other line: the block shortcut when the kind changes, the text, Enter,
\* and a second Enter that leaves a list or a quote.
TypeBlockLine ==
    /\ tpc = "loop" /\ i < Len(lines)
    /\ ~isCodeFence(rawLine)
    /\ ~(Trim(rawLine) = <<>> /\ ~inCodeBlock)
    /\ LET block == parseBlockLine(rawLine, inCodeBlock)
           kind == block.kind
           nextKind == IF inCodeBlock THEN "code"
                       ELSE parseBlockLine(nextLine, FALSE).kind
           leaves == leavesContainer(kind, nextKind)
       IN  /\ keys' = keys
                \o (IF kind # currentBlock
                    THEN applyBlockShortcut(commandKey, kind) ELSE <<>>)
                \o typeLineWithInlineStyles(commandKey, block.text,
                                            postParseInlineStyles /\ kind # "code")
                \o <<KeyEnter>>
                \o (IF leaves THEN <<KeyEnter>> ELSE <<>>)
           /\ currentBlock' = IF leaves THEN "paragraph" ELSE kind
    /\ i' = i + 1
    /\ UNCHANGED <<body, postParseInlineStyles, commandKey, lines, inCodeBlock, tpc>>
    /\ OnlyTypist

\* The loop ends after the last line.
FinishTyping ==
    /\ tpc = "loop" /\ i >= Len(lines)
    /\ tpc' = "done"
    /\ UNCHANGED <<body, postParseInlineStyles, commandKey, lines, i, inCodeBlock,
                   currentBlock, keys>>
    /\ OnlyTypist

TypistNext ==
    StartTyping \/ TypeFenceLine \/ TypeBlankLine \/ TypeBlockLine \/ FinishTyping

-----------------------------------------------------------------------------
(* Resilient element locator: findFirstVisibleHandle against a page that   *)
(* renders on its own.  Time is in milliseconds since the call (start).    *)

MaxSelectors == 3
MaxPageChanges == 1
\* The timeouts tried, and what one call into the page (page.$,
\* boundingBox) may take.
Timeouts == {150, 200, 300}
InspectDelays == {0, 50}

\* sleep(200) of the polling loop.
PollIntervalMs == 200

\* An element of the page under a selector: absent; present without a
\* layout box; present with a box of height 0; present and visible.
ElementStates == {"absent", "nobox", "flat", "visible"}

NoBox == [has |-> FALSE, width |-> 0, height |-> 0]

\* handle.boundingBox() of an element in the given state.
boundingBox(state) ==
    CASE state = "visible" -> [has |-> TRUE, width |-> 10, height |-> 10]
      [] state = "flat" -> [has |-> TRUE, width |-> 10, height |-> 0]
      [] OTHER -> NoBox

\* .catch(() => null) on boundingBox: a rejection counts as no box.
boxOrNull(rejected, box) == IF rejected THEN NoBox ELSE box

\* A slip: only the width is looked at.
qualifiesByWidth(box) == box.has /\ box.width > 0

\* A slip: any box qualifies, whatever its size.
qualifiesAnyBox(box) == box.has

\* box && box.width > 0 && box.height > 0
qualifies(box) == box.has /\ box.width > 0 /\ box.height > 0

\* A slip: the loop goes on while the elapsed time is at most the timeout.
withinTimeoutInclusive(elapsed, timeout) == elapsed <= timeout

\* while (Date.now() - start < timeoutMs)
withinTimeout(elapsed, timeout) == elapsed < timeout

\* A slip: the handle is not disposed.
disposeNothing(held, h) == held

\* handle.dispose(): the handle is no longer held.
dispose(held, h) == held \ {h}

NotFound == [selector |-> 0, handle |-> 0]

LocatorInit ==
    /\ selectors \in {[k \in 1..n |-> k] : n \in 1..MaxSelectors}
    /\ timeoutMs \in Timeouts
    /\ elements \in [1..Len(selectors) -> ElementStates]
    /\ pageChanges = 0
    /\ now = 0
    /\ roundStart = 0
    /\ inspectTime = 0
    /\ idx = 0
    /\ handle = 0
    /\ created = 0
    /\ handles = {}
    /\ inspected = <<>>
    /\ result = NotFound
    /\ lpc = "check"

LocatorIdle ==
    /\ selectors = <<>>
    /\ timeoutMs = 0
    /\ elements = <<>>
    /\ pageChanges = 0
    /\ now = 0
    /\ roundStart = 0
    /\ inspectTime = 0
    /\ idx = 0
    /\ handle = 0
    /\ created = 0
    /\ handles = {}
    /\ inspected = <<>>
    /\ result = NotFound
    /\ lpc = "idle"

\* The loop condition holds: a poll round starts with the first selector.
StartRound ==
    /\ lpc = "check"
    /\ withinTimeout(now, timeoutMs)
    /\ roundStart' = now
    /\ inspectTime' = 0
    /\ idx' = 1
    /\ inspected' = <<>>
    /\ lpc' = "query"
    /\ UNCHANGED <<selectors, timeoutMs, elements, pageChanges, now, handle,
                   created, handles, result>>
    /\ OnlyLocator

\* The loop condition fails: return null.
TimeOut ==
    /\ lpc = "check"
    /\ ~withinTimeout(now, timeoutMs)
    /\ result' = NotFound
    /\ lpc' = "done"
    /\ UNCHANGED <<selectors, timeoutMs, elements, pageChanges, now, roundStart, inspectTime,
                   idx, handle, created, handles, inspected>>
    /\ OnlyLocator

\* const handle = await page.$(selector); if (!handle) continue
QuerySelector ==
    /\ lpc = "query" /\ idx <= Len(selectors)
    /\ \E d \in InspectDelays : now' = now + d /\ inspectTime' = inspectTime + d
    /\ IF elements[selectors[idx]] = "absent"
       THEN /\ inspected' = Append(inspected,
                    [selector |-> selectors[idx], state |-> "absent", qualified |-> FALSE])
            /\ idx' = idx + 1
            /\ UNCHANGED <<handle, created, handles, lpc>>
       ELSE /\ created' = created + 1
            /\ handle' = created + 1
            /\ handles' = handles \cup {created + 1}
            /\ lpc' = "box"
            /\ UNCHANGED <<idx, inspected>>
    /\ UNCHANGED <<selectors, timeoutMs, elements, pageChanges, roundStart, result>>
    /\ OnlyLocator

\* const box = await handle.boundingBox().catch(() => null); the pair is
\* returned when the box qualifies.  The query rejects when the element has
\* left the page in the meantime.
InspectBox ==
    /\ lpc = "box"
    /\ \E d \in InspectDelays : now' = now + d /\ inspectTime' = inspectTime + d
    /\ LET state == elements[selectors[idx]]
           box == boxOrNull(state = "absent", boundingBox(state))
       IN  /\ inspected' = Append(inspected,
                   [selector |-> selectors[idx], state |-> state,
                    qualified |-> qualifies(box)])
           /\ IF box.width < 0
              THEN lpc' = "threw" /\ UNCHANGED result
              ELSE IF qualifies(box)
              THEN /\ result' = [selector |-> selectors[idx], handle |-> handle]
                   /\ lpc' = "done"
              ELSE lpc' = "dispose" /\ UNCHANGED result
    /\ UNCHANGED <<selectors, timeoutMs, elements, pageChanges, roundStart, idx,
                   handle, created, handles>>
    /\ OnlyLocator

\* await handle.dispose().catch(() => {})
DisposeHandle ==
    /\ lpc = "dispose"
    /\ handles' = dispose(handles, handle)
    /\ handle' = 0
    /\ idx' = idx + 1
    /\ lpc' = "query"
    /\ UNCHANGED <<selectors, timeoutMs, elements, pageChanges, now, roundStart, inspectTime,
                   created, inspected, result>>
    /\ OnlyLocator

\* await sleep(200) after the last selector of the round.
PollSleep ==
    /\ lpc = "query" /\ idx > Len(selectors)
    /\ now' = now + PollIntervalMs
    /\ lpc' = "check"
    /\ UNCHANGED <<selectors, timeoutMs, elements, pageChanges, roundStart, inspectTime, idx,
                   handle, created, handles, inspected, result>>
    /\ OnlyLocator

\* The page renders on its own: an element appears, changes or goes.
PageRenders ==
    /\ lpc \in {"check", "query", "box", "dispose"}
    /\ pageChanges < MaxPageChanges
    /\ \E k \in 1..Len(selectors), st \in ElementStates :
          /\ elements[k] # st
          /\ elements' = [elements EXCEPT ![k] = st]
    /\ pageChanges' = pageChanges + 1
    /\ UNCHANGED <<selectors, timeoutMs, now, roundStart, inspectTime, idx, handle, created,
                   handles, inspected, result, lpc>>
    /\ OnlyLocator

LocatorNext ==
    \/ StartRound \/ TimeOut \/ QuerySelector \/ InspectBox \/ DisposeHandle
    \/ PollSleep \/ PageRenders

-----------------------------------------------------------------------------
(* The composer part of main: draft preparation, openPostComposer,         *)
(* fillPostComposer (title, then body), fillPostTags, uploadPostThumbnail  *)
(* and clickPostAction.  did is the log of the steps performed on the      *)
(* page; undisposed counts the element handles the locator has returned    *)
(* and nobody has disposed.                                                *)

\* A slip: the texts are compared as they are.
normalizeWhitespaceNot(value) == value

\* The loop of value.replace(/\s+/g, ' '): each run of whitespace becomes
\* one space.
RECURSIVE CollapseSpace(_, _)
CollapseSpace(value, at) ==
    IF at > Len(value) THEN <<>>
    ELSE IF IsSpace(value[at])
    THEN <<" ">> \o CollapseSpace(value, SkipSpace(value, at))
    ELSE <<value[at]>> \o CollapseSpace(value, at + 1)

\* normalizeWhitespace: value.replace(/\s+/g, ' ').trim()
normalizeWhitespace(value) == Trim(CollapseSpace(value, 1))

\* The titles a draft may carry (main puts the fallback title in the place of
\* an empty one), and the values the title field may hold when it is read
\* back.
TitleTexts ==
    { <<"a">>, <<"a", " ">>, <<"a", " ", " ", "b">>, <<"b", "\t", "a">> }

FieldValues ==
    TitleTexts \cup { <<>>, <<" ", "a">>, <<"a", " ", "b">>, <<"a", "b">>, <<"b", " ", "a">> }

\* body.length of a draft, and bodyText.trim().length of the editor.
BodyLengths == {0, 10, 200}
ReadLengths == {0, 1, 2, 29, 30}

NoDraft == [present |-> FALSE, title |-> <<>>, bodyLength |-> 0,
            tags |-> FALSE, thumbnail |-> FALSE]

Drafts ==
    [present : {TRUE}, title : TitleTexts, bodyLength : BodyLengths,
     tags : BOOLEAN, thumbnail : BOOLEAN]

\* A slip: the fraction alone decides, without the cap of 30 characters.
bodyTooShortOfFraction(readLength, bodyLength) == 5 * readLength < bodyLength

\* bodyText.trim().length < Math.min(30, body.length * 0.2)
bodyTooShort(readLength, bodyLength) ==
    readLength < 30 /\ 5 * readLength < bodyLength

ComposerInit ==
    /\ generateArticle \in BOOLEAN
    /\ hasPostBody \in BOOLEAN
    /\ openPostPage \in BOOLEAN
    /\ fillPostTitle \in BOOLEAN
    /\ fillPostBody \in BOOLEAN
    /\ hasPostAction \in BOOLEAN
    /\ draftArticle = NoDraft
    /\ titleValue = <<>>
    /\ bodyTextLength = 0
    /\ did = <<>>
    /\ undisposed = 0
    /\ exitCode = 0
    /\ mpc = "draft"

ComposerIdle ==
    /\ generateArticle = FALSE
    /\ hasPostBody = FALSE
    /\ openPostPage = FALSE
    /\ fillPostTitle = FALSE
    /\ fillPostBody = FALSE
    /\ hasPostAction = FALSE
    /\ draftArticle = NoDraft
    /\ titleValue = <<>>
    /\ bodyTextLength = 0
    /\ did = <<>>
    /\ undisposed = 0
    /\ exitCode = 0
    /\ mpc = "idle"

configVars == <<generateArticle, hasPostBody, openPostPage, fillPostTitle,
                fillPostBody, hasPostAction>>

\* Where main goes after the draft block: the composer, or the end.
AfterDraft == IF openPostPage THEN "open" ELSE "finally"

\* Where fillPostComposer goes after the title: the body, or its return.
AfterTitle ==
    IF fillPostBody /\ draftArticle.bodyLength > 0 THEN "locateEditor" ELSE "filled"

\* No draft is wanted: the draft block is skipped.
SkipDraft ==
    /\ mpc = "draft"
    /\ ~(generateArticle \/ hasPostBody)
    /\ mpc' = AfterDraft
    /\ UNCHANGED <<configVars, draftArticle, titleValue, bodyTextLength, did,
                   undisposed, exitCode>>
    /\ OnlyComposer

\* resolveDraftArticle returns a draft (its title already defaulted), or
\* null when the body file gives nothing and generation is off.
PrepareDraft ==
    /\ mpc = "draft"
    /\ generateArticle \/ hasPostBody
    /\ \/ draftArticle' \in Drafts
       \/ ~generateArticle /\ draftArticle' = NoDraft
    /\ mpc' = AfterDraft
    /\ UNCHANGED <<configVars, titleValue, bodyTextLength, did, undisposed, exitCode>>
    /\ OnlyComposer

\* The draft block throws: the error is logged, the exit code is set when
\* generation was asked for, and main goes on.  When resolveDraftArticle
\* throws (the text generation fails, the body file cannot be read) there is
\* no draft; when the generated article cannot be saved the draft has been
\* assigned already.
DraftFails ==
    /\ mpc = "draft"
    /\ generateArticle \/ hasPostBody
    /\ \/ draftArticle' = NoDraft
       \/ generateArticle /\ draftArticle' \in Drafts
    /\ exitCode' = IF generateArticle THEN 1 ELSE exitCode
    /\ did' = Append(did, "draftFailed")
    /\ mpc' = AfterDraft
    /\ UNCHANGED <<configVars, titleValue, bodyTextLength, undisposed>>
    /\ OnlyComposer

\* waitForPostComposerReady finds the title input and the editor: it holds
\* the two handles the locator returned.
ComposerReady ==
    /\ mpc = "open"
    /\ undisposed' = undisposed + 2
    /\ mpc' = "ready"
    /\ UNCHANGED <<configVars, draftArticle, titleValue, bodyTextLength, did, exitCode>>
    /\ OnlyComposer

\* waitForPostComposerReady disposes its two handles and returns true;
\* openPostComposer returns the composer page.
OpenComposer ==
    /\ mpc = "ready"
    /\ undisposed' = undisposed - 2
    /\ did' = Append(did, "open")
    /\ mpc' = IF ~draftArticle.present THEN "postAction"
              ELSE IF ~fillPostTitle /\ ~fillPostBody THEN "tags"
              ELSE IF fillPostTitle /\ draftArticle.title # <<>> THEN "locateTitle"
              ELSE AfterTitle
    /\ UNCHANGED <<configVars, draftArticle, titleValue, bodyTextLength, exitCode>>
    /\ OnlyComposer

\* The composer does not get ready (a handle the check did get is disposed
\* in it): openPostComposer returns null, a warning, and the run ends.
ComposerNotOpened ==
    /\ mpc = "open"
    /\ mpc' = "finally"
    /\ UNCHANGED <<configVars, draftArticle, titleValue, bodyTextLength, did,
                   undisposed, exitCode>>
    /\ OnlyComposer

\* findFirstVisibleHandle(postTitleSelectors) returns a pair.
TitleFound ==
    /\ mpc = "locateTitle"
    /\ undisposed' = undisposed + 1
    /\ mpc' = "typeTitle"
    /\ UNCHANGED <<configVars, draftArticle, titleValue, bodyTextLength, did, exitCode>>
    /\ OnlyComposer

\* findFirstVisibleHandle(postTitleSelectors) returns null:
\* throw new Error('Title input not found.')
TitleNotFound ==
    /\ mpc = "locateTitle"
    /\ did' = Append(did, "titleNotFound")
    /\ mpc' = "catch"
    /\ UNCHANGED <<configVars, draftArticle, titleValue, bodyTextLength, undisposed,
                   exitCode>>
    /\ OnlyComposer

\* Click, select all, Backspace, typeLikeHuman(title).
TypeTitle ==
    /\ mpc = "typeTitle"
    /\ did' = Append(did, "titleTyped")
    /\ mpc' = "readTitle"
    /\ UNCHANGED <<configVars, draftArticle, titleValue, bodyTextLength, undisposed,
                   exitCode>>
    /\ OnlyComposer

\* titleValue = await page.$eval(titleSelector, ...).catch(() => ''): the
\* field holds whatever the page made of the typing; a rejection reads as
\* the empty text.
ReadTitle ==
    /\ mpc = "readTitle"
    /\ titleValue' \in FieldValues
    /\ did' = Append(did, "titleRead")
    /\ mpc' = "verifyTitle"
    /\ UNCHANGED <<configVars, draftArticle, bodyTextLength, undisposed, exitCode>>
    /\ OnlyComposer

\* if (normalizeWhitespace(titleValue) !== normalizeWhitespace(title))
titleMismatch ==
    normalizeWhitespace(titleValue) # normalizeWhitespace(draftArticle.title)

\* The read-back agrees: the title is done.
TitleVerified ==
    /\ mpc = "verifyTitle"
    /\ ~titleMismatch
    /\ mpc' = AfterTitle
    /\ UNCHANGED <<configVars, draftArticle, titleValue, bodyTextLength, did,
                   undisposed, exitCode>>
    /\ OnlyComposer

\* The read-back differs: page.evaluate assigns the value and dispatches
\* input and change; when the selector finds no element any more it returns
\* without assigning.
TitleFallback ==
    /\ mpc = "verifyTitle"
    /\ titleMismatch
    /\ \E reachable \in BOOLEAN :
          did' = Append(did, IF reachable THEN "titleFallback" ELSE "titleFallbackNoElement")
    /\ mpc' = AfterTitle
    /\ UNCHANGED <<configVars, draftArticle, titleValue, bodyTextLength, undisposed,
                   exitCode>>
    /\ OnlyComposer

\* findFirstVisibleHandle(postBodySelectors) returns a pair, and
\* waitForFunction sees the editable element.
EditorFound ==
    /\ mpc = "locateEditor"
    /\ undisposed' = undisposed + 1
    /\ mpc' = "typeBody"
    /\ UNCHANGED <<configVars, draftArticle, titleValue, bodyTextLength, did, exitCode>>
    /\ OnlyComposer

\* findFirstVisibleHandle(postBodySelectors) returns null:
\* throw new Error('Editor not found.')
EditorNotFound ==
    /\ mpc = "locateEditor"
    /\ did' = Append(did, "editorNotFound")
    /\ mpc' = "catch"
    /\ UNCHANGED <<configVars, draftArticle, titleValue, bodyTextLength, undisposed,
                   exitCode>>
    /\ OnlyComposer

\* The editor is found and waitForFunction times out: it throws, with the
\* handle of the editor still open.
EditorNotEditable ==
    /\ mpc = "locateEditor"
    /\ undisposed' = undisposed + 1
    /\ did' = Append(did, "editorNotEditable")
    /\ mpc' = "catch"
    /\ UNCHANGED <<configVars, draftArticle, titleValue, bodyTextLength, exitCode>>
    /\ OnlyComposer

\* Click, select all, Backspace, typeBodyWithShortcuts or typeLikeHuman.
TypeBody ==
    /\ mpc = "typeBody"
    /\ did' = Append(did, "bodyTyped")
    /\ mpc' = "readBody"
    /\ UNCHANGED <<configVars, draftArticle, titleValue, bodyTextLength, undisposed,
                   exitCode>>
    /\ OnlyComposer

\* bodyText = await page.$eval(editorSelector, innerText).catch(() => '')
ReadBody ==
    /\ mpc = "readBody"
    /\ bodyTextLength' \in ReadLengths
    /\ did' = Append(did, "bodyRead")
    /\ mpc' = "verifyBody"
    /\ UNCHANGED <<configVars, draftArticle, titleValue, undisposed, exitCode>>
    /\ OnlyComposer

\* The editor holds enough text: the body is done.
BodyVerified ==
    /\ mpc = "verifyBody"
    /\ ~bodyTooShort(bodyTextLength, draftArticle.bodyLength)
    /\ mpc' = "filled"
    /\ UNCHANGED <<configVars, draftArticle, titleValue, bodyTextLength, did,
                   undisposed, exitCode>>
    /\ OnlyComposer

\* The editor holds too little: page.evaluate selects the editable element
\* and inserts the body; when the selector finds no element any more it
\* returns without inserting.
BodyFallback ==
    /\ mpc = "verifyBody"
    /\ bodyTooShort(bodyTextLength, draftArticle.bodyLength)
    /\ \E reachable \in BOOLEAN :
          did' = Append(did, IF reachable THEN "bodyFallback" ELSE "bodyFallbackNoElement")
    /\ mpc' = "filled"
    /\ UNCHANGED <<configVars, draftArticle, titleValue, bodyTextLength, undisposed,
                   exitCode>>
    /\ OnlyComposer

\* fillPostComposer returns: console.log('Draft content filled.')
ComposerFilled ==
    /\ mpc = "filled"
    /\ did' = Append(did, "filled")
    /\ mpc' = "tags"
    /\ UNCHANGED <<configVars, draftArticle, titleValue, bodyTextLength, undisposed,
                   exitCode>>
    /\ OnlyComposer

AfterTags == IF draftArticle.thumbnail THEN "thumbnail" ELSE "postAction"

\* The draft has no tags: fillPostTags is not called.
NoTags ==
    /\ mpc = "tags"
    /\ ~draftArticle.tags
    /\ mpc' = AfterTags
    /\ UNCHANGED <<configVars, draftArticle, titleValue, bodyTextLength, did,
                   undisposed, exitCode>>
    /\ OnlyComposer

\* fillPostTags finds the tag input: each tag is typed and submitted.
TagsFilled ==
    /\ mpc = "tags"
    /\ draftArticle.tags
    /\ undisposed' = undisposed + 1
    /\ did' = Append(did, "tagsTyped")
    /\ mpc' = AfterTags
    /\ UNCHANGED <<configVars, draftArticle, titleValue, bodyTextLength, exitCode>>
    /\ OnlyComposer

\* fillPostTags does not find the tag input: a warning, return false.
TagsNotFound ==
    /\ mpc = "tags"
    /\ draftArticle.tags
    /\ did' = Append(did, "tagsNotFound")
    /\ mpc' = AfterTags
    /\ UNCHANGED <<configVars, draftArticle, titleValue, bodyTextLength, undisposed,
                   exitCode>>
    /\ OnlyComposer

\* uploadPostThumbnail: uploaded, or a warning and false.
UploadThumbnail ==
    /\ mpc = "thumbnail"
    /\ \E uploaded \in BOOLEAN :
          did' = Append(did, IF uploaded THEN "thumbnail" ELSE "thumbnailNotUploaded")
    /\ mpc' = "postAction"
    /\ UNCHANGED <<configVars, draftArticle, titleValue, bodyTextLength, undisposed,
                   exitCode>>
    /\ OnlyComposer

\* clickPostAction when a selector or action texts are configured: clicked,
\* or a warning that the action was not found.
ClickPostAction ==
    /\ mpc = "postAction"
    /\ hasPostAction
    /\ \E clicked \in BOOLEAN :
          did' = Append(did, IF clicked THEN "postAction" ELSE "postActionNotFound")
    /\ mpc' = "finally"
    /\ UNCHANGED <<configVars, draftArticle, titleValue, bodyTextLength, undisposed,
                   exitCode>>
    /\ OnlyComposer

\* Nothing is configured to click.
NoPostAction ==
    /\ mpc = "postAction"
    /\ ~hasPostAction
    /\ mpc' = "finally"
    /\ UNCHANGED <<configVars, draftArticle, titleValue, bodyTextLength, did,
                   undisposed, exitCode>>
    /\ OnlyComposer

\* A slip: the error is logged and the exit code left alone.
exitCodeAfterErrorKept(code) == code

\* catch (err) of main: process.exitCode = 1
exitCodeAfterError(code) == 1

CatchError ==
    /\ mpc = "catch"
    /\ exitCode' = exitCodeAfterError(exitCode)
    /\ mpc' = "finally"
    /\ UNCHANGED <<configVars, draftArticle, titleValue, bodyTextLength, did, undisposed>>
    /\ OnlyComposer

\* finally of main: the browser is closed or left open; the run is over.
Finally ==
    /\ mpc = "finally"
    /\ mpc' = "done"
    /\ UNCHANGED <<configVars, draftArticle, titleValue, bodyTextLength, did,
                   undisposed, exitCode>>
    /\ OnlyComposer

ComposerNext ==
    \/ SkipDraft \/ PrepareDraft \/ DraftFails
    \/ ComposerReady \/ OpenComposer \/ ComposerNotOpened
    \/ TitleFound \/ TitleNotFound \/ TypeTitle \/ ReadTitle
    \/ TitleVerified \/ TitleFallback
    \/ EditorFound \/ EditorNotFound \/ EditorNotEditable
    \/ TypeBody \/ ReadBody \/ BodyVerified \/ BodyFallback \/ ComposerFilled
    \/ NoTags \/ TagsFilled \/ TagsNotFound \/ UploadThumbnail
    \/ ClickPostAction \/ NoPostAction \/ CatchError \/ Finally

-----------------------------------------------------------------------------
(* Front matter: stripOuterQuotes, parseInlineArray, parseFrontMatterValue *)
(* and parseFrontMatter, the loop over the lines of the fenced region      *)
(* taken one line a step.                                                  *)

\* The byte order mark U+FEFF.
Bom == "bom"

AsciiLetters ==
    { "a", "b", "c", "d", "e", "f", "g", "h", "i", "j", "k", "l", "m",
      "n", "o", "p", "q", "r", "s", "t", "u", "v", "w", "x", "y", "z",
      "A", "B", "C", "D", "E", "F", "G", "H", "I", "J", "K", "L", "M",
      "N", "O", "P", "Q", "R", "S", "T", "U", "V", "W", "X", "Y", "Z" }

\* [A-Za-z0-9_-]
IsKeyChar(c) == c \in AsciiLetters \/ IsDigit(c) \/ c \in {"_", "-"}

RECURSIVE SkipKeyChars(_, _)
SkipKeyChars(s, at) ==
    IF at > Len(s) \/ ~IsKeyChar(s[at]) THEN at ELSE SkipKeyChars(s, at + 1)

\* The first index >= at that does not hold the letter s.
RECURSIVE SkipLetterS(_, _)
SkipLetterS(s, at) ==
    IF at > Len(s) \/ s[at] # "s" THEN at ELSE SkipLetterS(s, at + 1)

\* value.slice(1, -1)
SliceInner(value) == IF Len(value) <= 2 THEN <<>> ELSE SubSeq(value, 2, Len(value) - 1)

stripOuterQuotes(value) ==
    IF value # <<>> /\ value[1] = value[Len(value)] /\ value[1] \in {"\"", "'"}
    THEN SliceInner(value)
    ELSE value

\* inner.split(',')
RECURSIVE SplitCommas(_, _, _)
SplitCommas(s, at, cur) ==
    IF at > Len(s) THEN <<cur>>
    ELSE IF s[at] = "," THEN <<cur>> \o SplitCommas(s, at + 1, <<>>)
    ELSE SplitCommas(s, at + 1, Append(cur, s[at]))

\* .map((part) => stripOuterQuotes(part.trim())).filter(Boolean)
RECURSIVE StripParts(_)
StripParts(parts) ==
    IF parts = <<>> THEN <<>>
    ELSE LET part == stripOuterQuotes(Trim(parts[1])) IN
         (IF part = <<>> THEN <<>> ELSE <<part>>) \o StripParts(Tail(parts))

\* A front matter value: a text or a list of texts.
Scalar(text) == [isArray |-> FALSE, text |-> text, items |-> <<>>]
Array(items) == [isArray |-> TRUE, text |-> <<>>, items |-> items]

\* parseInlineArray gives null for a value that is not bracketed.
isInlineArray(value) ==
    LET trimmed == Trim(value) IN
    /\ trimmed # <<>>
    /\ trimmed[1] = "["
    /\ trimmed[Len(trimmed)] = "]"

parseInlineArray(value) ==
    LET inner == Trim(SliceInner(Trim(value))) IN
    IF inner = <<>> THEN <<>> ELSE StripParts(SplitCommas(inner, 1, <<>>))

parseFrontMatterValue(value) ==
    IF isInlineArray(value) THEN Array(parseInlineArray(value))
    ELSE Scalar(stripOuterQuotes(Trim(value)))

\* .replace(/\r\n/g, '\n')
RECURSIVE replaceCrLf(_, _)
replaceCrLf(s, at) ==
    IF at > Len(s) THEN <<>>
    ELSE IF s[at] = "\r" /\ at < Len(s) /\ s[at + 1] = "\n"
    THEN replaceCrLf(s, at + 1)
    ELSE <<s[at]>> \o replaceCrLf(s, at + 1)

\* content.replace(/^\uFEFF/, '').replace(/\r\n/g, '\n')
normalizeContent(s) ==
    replaceCrLf(IF s # <<>> /\ s[1] = Bom THEN Tail(s) ELSE s, 1)

OpeningFence == <<"-", "-", "-", "\n">>
ClosingFence == <<"\n", "-", "-", "-">>

\* The first index >= at where \n--- begins, 0 when there is none: the end
\* of the lazy group ([\s\S]*?) that starts at at.
RECURSIVE ClosingAt(_, _)
ClosingAt(s, at) ==
    IF at > Len(s) THEN 0
    ELSE IF StartsWithAt(s, ClosingFence, at) THEN at
    ELSE ClosingAt(s, at + 1)

\* normalized.match(/^---\s*\n([\s\S]*?)\n---\s*\n?/) on a text that starts
\* with ---\n: the greedy \s* gives back whitespace until the \n after it is
\* a line feed from which a closing \n--- can be reached; the match ends
\* after the whitespace that follows the closing ---.  rawMatter is
\* match[1] and body is normalized.slice(match[0].length).
headerMatch(s) ==
    LET afterSpace == SkipSpace(s, 4)
        feeds == { p \in 4..(afterSpace - 1) : s[p] = "\n" /\ ClosingAt(s, p + 1) # 0 }
        start == (CHOOSE p \in feeds : \A q \in feeds : q <= p) + 1
        closing == ClosingAt(s, start)
    IN IF feeds = {}
       THEN [matched |-> FALSE, rawMatter |-> <<>>, body |-> <<>>]
       ELSE [matched |-> TRUE,
             rawMatter |-> SubSeq(s, start, closing - 1),
             body |-> Drop(s, SkipSpace(s, closing + 4) - 1)]

\* trimmed.match(/^-\\s+(.*)$/): a hyphen, a backslash, one or more letters
\* s, and the rest of the line, which is listMatch[1].
listMatch(trimmed) ==
    [matched |-> /\ Len(trimmed) >= 3
                 /\ trimmed[1] = "-"
                 /\ trimmed[2] = "\\"
                 /\ trimmed[3] = "s",
     item |-> Drop(trimmed, SkipLetterS(trimmed, 3) - 1)]

\* trimmed.match(/^([A-Za-z0-9_-]+)\\s*:\\s*(.*)$/): key characters, a
\* backslash, letters s, a colon, a backslash, letters s, and the rest; key
\* is keyMatch[1] and rawValue is keyMatch[2].
keyMatch(trimmed) ==
    LET keyEnd == SkipKeyChars(trimmed, 1)
        colonAt == SkipLetterS(trimmed, keyEnd + 1)
    IN [matched |-> /\ keyEnd > 1
                    /\ keyEnd <= Len(trimmed)
                    /\ trimmed[keyEnd] = "\\"
                    /\ colonAt + 1 <= Len(trimmed)
                    /\ trimmed[colonAt] = ":"
                    /\ trimmed[colonAt + 1] = "\\",
        key |-> Take(trimmed, keyEnd - 1),
        rawValue |-> Drop(trimmed, SkipLetterS(trimmed, colonAt + 2) - 1)]

\* attributes[key] = value
SetAttribute(attrs, key, value) ==
    [k \in DOMAIN attrs \cup {key} |-> IF k = key THEN value ELSE attrs[k]]

\* No attribute: the empty object.
NoAttributes == [k \in {} |-> Array(<<>>)]

\* currentKey = null (a key is never empty).
NoKey == <<>>

MaxMatterLines == 2

\* The lines of the fenced region the check draws from.
MatterLines ==
    { <<"t", "i", "t", "l", "e", ":", " ", "H", "e", "l", "l", "o">>,
      <<"t", "a", "g", "s", ":", " ", "[", "a", ",", " ", "b", "]">>,
      <<"t", ":">>,
      <<"-", " ", "x">>,
      <<"#", " ", "c">>,
      <<"t", "\\", ":", "\\", "x">>,
      <<"t", "\\", ":", "\\">>,
      <<"k", "\\", "s", ":", "\\", "s", "[", "a", ",", " ", "\"", "b", "\"", "]">>,
      <<"-", "\\", "s", " ", "'", "x", "'">> }

FrontMatterBodies == { <<>>, <<"B", "o", "d", "y", " ", "t", "e", "x", "t">> }

ExampleContent ==
    <<"-", "-", "-", "\n", "t", "i", "t", "l", "e", ":", " ", "H", "e", "l", "l", "o", "\n", "t", "a", "g", "s", ":", " ", "[", "a", ",", " ", "b", "]", "\n", "-", "-", "-", "\n", "B", "o", "d", "y", " ", "t", "e", "x", "t">>

\* Texts without an opening fence, without a closing fence, with blank
\* lines and blanks around the fences, with a closing fence that does not
\* end its line, and with CR LF line ends.
OtherContents ==
    { <<"B", "o", "d", "y", " ", "t", "e", "x", "t">>,
      <<"-", "-", "-", "\n", "t", ":", " ", "x">>,
      <<"-", "-", "-", "\n", "\n", "-", "-", "-", "\n", "B">>,
      <<"-", "-", "-", " ", "\n", "t", ":", " ", "x", "\n", "-", "-", "-", "\n", "B">>,
      <<"-", "-", "-", "\n", "t", ":", " ", "x", "\n", "-", "-", "-", " ", " ", "\n", "\n", " ", "B">>,
      <<"-", "-", "-", "\n", "t", ":", " ", "x", "\n", "-", "-", "-", "B">>,
      <<"-", "-", "-", "\r", "\n", "t", "i", "t", "l", "e", ":", " ", "H", "e", "l", "l", "o", "\r", "\n", "t", "a", "g", "s", ":", " ", "[", "a", ",", " ", "b", "]", "\r", "\n", "-", "-", "-", "\r", "\n", "B", "o", "d", "y", " ", "t", "e", "x", "t">>,
      <<Bom>> \o ExampleContent }

FencedContents ==
    { OpeningFence \o Join(ls, <<"\n">>) \o ClosingFence \o <<"\n">> \o b :
         ls \in SeqsUpTo(MatterLines, MaxMatterLines) \ {<<>>}, b \in FrontMatterBodies }

FrontMatterContents == FencedContents \cup OtherContents \cup {ExampleContent}

FrontMatterInit ==
    /\ content \in FrontMatterContents
    /\ matterLines = <<>>
    /\ lineAt = 1
    /\ currentKey = NoKey
    /\ attributes = NoAttributes
    /\ fmBody = <<>>
    /\ fpc = "start"

FrontMatterIdle ==
    /\ content = <<>>
    /\ matterLines = <<>>
    /\ lineAt = 1
    /\ currentKey = NoKey
    /\ attributes = NoAttributes
    /\ fmBody = <<>>
    /\ fpc = "idle"

\* if (!normalized.startsWith('---\n')) return { attributes: {}, body: content }
NoOpeningFence ==
    /\ fpc = "start"
    /\ ~StartsWith(normalizeContent(content), OpeningFence)
    /\ fmBody' = content
    /\ fpc' = "done"
    /\ UNCHANGED <<content, matterLines, lineAt, currentKey, attributes>>
    /\ OnlyFrontMatter

\* if (!match) return { attributes: {}, body: content }
NoClosingFence ==
    /\ fpc = "start"
    /\ StartsWith(normalizeContent(content), OpeningFence)
    /\ ~headerMatch(normalizeContent(content)).matched
    /\ fmBody' = content
    /\ fpc' = "done"
    /\ UNCHANGED <<content, matterLines, lineAt, currentKey, attributes>>
    /\ OnlyFrontMatter

\* The header matches: rawMatter is split into lines, body is what follows.
MatchFences ==
    /\ fpc = "start"
    /\ StartsWith(normalizeContent(content), OpeningFence)
    /\ headerMatch(normalizeContent(content)).matched
    /\ matterLines' = SplitLines(headerMatch(normalizeContent(content)).rawMatter)
    /\ fmBody' = headerMatch(normalizeContent(content)).body
    /\ fpc' = "lines"
    /\ UNCHANGED <<content, lineAt, currentKey, attributes>>
    /\ OnlyFrontMatter

trimmedLine == Trim(matterLines[lineAt])

\* if (!trimmed || trimmed.startsWith('#')) continue
SkipMatterLine ==
    /\ fpc = "lines" /\ lineAt <= Len(matterLines)
    /\ trimmedLine = <<>> \/ StartsWith(trimmedLine, <<"#">>)
    /\ lineAt' = lineAt + 1
    /\ UNCHANGED <<content, matterLines, currentKey, attributes, fmBody, fpc>>
    /\ OnlyFrontMatter

\* A line of the loop that is neither blank nor a comment.
IsMatterEntry ==
    /\ fpc = "lines" /\ lineAt <= Len(matterLines)
    /\ trimmedLine # <<>> /\ ~StartsWith(trimmedLine, <<"#">>)

\* if (listMatch && currentKey): the item joins the list of the current key.
ListItemLine ==
    /\ IsMatterEntry
    /\ listMatch(trimmedLine).matched /\ currentKey # NoKey
    /\ LET existing == attributes[currentKey]
           values == IF existing.isArray THEN existing.items ELSE <<>>
           item == stripOuterQuotes(Trim(listMatch(trimmedLine).item))
       IN attributes' = SetAttribute(attributes, currentKey,
                           Array(values \o (IF item = <<>> THEN <<>> ELSE <<item>>)))
    /\ lineAt' = lineAt + 1
    /\ UNCHANGED <<content, matterLines, currentKey, fmBody, fpc>>
    /\ OnlyFrontMatter

IsKeyCandidate == IsMatterEntry /\ ~(listMatch(trimmedLine).matched /\ currentKey # NoKey)

\* if (!keyMatch) continue
UnmatchedLine ==
    /\ IsKeyCandidate
    /\ ~keyMatch(trimmedLine).matched
    /\ lineAt' = lineAt + 1
    /\ UNCHANGED <<content, matterLines, currentKey, attributes, fmBody, fpc>>
    /\ OnlyFrontMatter

\* if (!rawValue): the key opens an empty list.
KeyLine ==
    /\ IsKeyCandidate
    /\ keyMatch(trimmedLine).matched
    /\ keyMatch(trimmedLine).rawValue = <<>>
    /\ currentKey' = keyMatch(trimmedLine).key
    /\ attributes' = SetAttribute(attributes, keyMatch(trimmedLine).key, Array(<<>>))
    /\ lineAt' = lineAt + 1
    /\ UNCHANGED <<content, matterLines, fmBody, fpc>>
    /\ OnlyFrontMatter

\* attributes[key] = parseFrontMatterValue(rawValue)
KeyValueLine ==
    /\ IsKeyCandidate
    /\ keyMatch(trimmedLine).matched
    /\ keyMatch(trimmedLine).rawValue # <<>>
    /\ currentKey' = keyMatch(trimmedLine).key
    /\ attributes' = SetAttribute(attributes, keyMatch(trimmedLine).key,
                                  parseFrontMatterValue(keyMatch(trimmedLine).rawValue))
    /\ lineAt' = lineAt + 1
    /\ UNCHANGED <<content, matterLines, fmBody, fpc>>
    /\ OnlyFrontMatter

\* return { attributes, body }
ReturnFrontMatter ==
    /\ fpc = "lines"
    /\ lineAt > Len(matterLines)
    /\ fpc' = "done"
    /\ UNCHANGED <<content, matterLines, lineAt, currentKey, attributes, fmBody>>
    /\ OnlyFrontMatter

FrontMatterNext ==
    \/ NoOpeningFence \/ NoClosingFence \/ MatchFences
    \/ SkipMatterLine \/ ListItemLine \/ UnmatchedLine \/ KeyLine \/ KeyValueLine
    \/ ReturnFrontMatter

-----------------------------------------------------------------------------
(* Automatic headings: hasMarkdownHeadings, splitParagraphs,               *)
(* buildParagraphsFromSentences and applyAutoHeadings.                     *)

\* A slip: only level-3 headings are recognised.
headingAtLevel3Only(text, p) ==
    LET q == SkipSpace(text, p) IN
    /\ StartsWithAt(text, <<"#", "#", "#">>, q)
    /\ q + 3 <= Len(text) /\ IsSpace(text[q + 3])
    /\ SkipSpace(text, q + 3) <= Len(text)

\* \s*#{2,3}\s+\S at index p: blanks, two or three # signs, at least one
\* blank, and a character that is not blank.
headingAt(text, p) ==
    LET q == SkipSpace(text, p) IN
    \E hashes \in {2, 3} :
       /\ \A k \in 0..(hashes - 1) : q + k <= Len(text) /\ text[q + k] = "#"
       /\ q + hashes <= Len(text) /\ IsSpace(text[q + hashes])
       /\ SkipSpace(text, q + hashes) <= Len(text)

\* /(^|\n)\s*#{2,3}\s+\S/.test(body)
hasMarkdownHeadings(text) ==
    \E p \in 1..Len(text) :
       /\ IF p = 1 THEN TRUE ELSE text[p - 1] = "\n"
       /\ headingAt(text, p)

\* [。.!?！？]
IsTerminator(c) == c \in {".", "!", "?"}

RECURSIVE SkipTerminators(_, _)
SkipTerminators(s, at) ==
    IF at > Len(s) \/ ~IsTerminator(s[at]) THEN at ELSE SkipTerminators(s, at + 1)

RECURSIVE SkipToTerminator(_, _)
SkipToTerminator(s, at) ==
    IF at > Len(s) \/ IsTerminator(s[at]) THEN at ELSE SkipToTerminator(s, at + 1)

\* normalized.match(/[^。.!?！？]+[。.!?！？]+|[^。.!?！？]+$/g): from each
\* position, a run of other characters with the terminators that follow it,
\* or the run that ends the text; a terminator no run precedes is left out.
RECURSIVE matchSentences(_, _)
matchSentences(s, at) ==
    IF at > Len(s) THEN <<>>
    ELSE IF IsTerminator(s[at]) THEN matchSentences(s, at + 1)
    ELSE LET stop == SkipTerminators(s, SkipToTerminator(s, at)) IN
         <<SubSeq(s, at, stop - 1)>> \o matchSentences(s, stop)

RECURSIVE SkipLineFeeds(_, _)
SkipLineFeeds(s, at) ==
    IF at > Len(s) \/ s[at] # "\n" THEN at ELSE SkipLineFeeds(s, at + 1)

\* normalized.split(/\n{2,}/)
RECURSIVE SplitBlankLines(_, _, _)
SplitBlankLines(s, at, cur) ==
    IF at > Len(s) THEN <<cur>>
    ELSE IF s[at] = "\n" /\ at < Len(s) /\ s[at + 1] = "\n"
    THEN <<cur>> \o SplitBlankLines(s, SkipLineFeeds(s, at), <<>>)
    ELSE SplitBlankLines(s, at + 1, Append(cur, s[at]))

\* .map((part) => part.trim()).filter(Boolean)
RECURSIVE TrimParts(_)
TrimParts(parts) ==
    IF parts = <<>> THEN <<>>
    ELSE (IF Trim(parts[1]) = <<>> THEN <<>> ELSE <<Trim(parts[1])>>) \o TrimParts(Tail(parts))

\* The loop of buildParagraphsFromSentences, from sentence number at on.
RECURSIVE BuildFrom(_, _, _, _)
BuildFrom(sentences, at, buffer, targetLength) ==
    IF at > Len(sentences)
    THEN IF Trim(buffer) # <<>> THEN <<Trim(buffer)>> ELSE <<>>
    ELSE LET candidate == buffer \o sentences[at] IN
         IF buffer # <<>> /\ Len(candidate) >= targetLength
         THEN <<Trim(buffer)>> \o BuildFrom(sentences, at + 1, sentences[at], targetLength)
         ELSE BuildFrom(sentences, at + 1, candidate, targetLength)

buildParagraphsFromSentences(sentences, targetLength) ==
    BuildFrom(sentences, 1, <<>>, targetLength)

splitParagraphs(text, targetLength) ==
    LET normalized == Trim(replaceCrLf(text, 1))
        parts == TrimParts(SplitBlankLines(normalized, 1, <<>>))
        sentences == matchSentences(normalized, 1)
    IN IF normalized = <<>> THEN <<>>
       ELSE IF Len(parts) > 1 THEN parts
       ELSE IF Len(sentences) <= 1 THEN <<normalized>>
       ELSE buildParagraphsFromSentences(sentences, targetLength)

DecimalDigits == <<"0", "1", "2", "3", "4", "5", "6", "7", "8", "9">>

\* A slip: the labels are numbered from 0.
ToDecimalFromZero(n) == <<DecimalDigits[((n - 1) % 10) + 1]>>

\* The template literal's conversion of a number to decimal digits.
RECURSIVE ToDecimal(_)
ToDecimal(n) ==
    IF n < 10 THEN <<DecimalDigits[n + 1]>>
    ELSE ToDecimal(n \div 10) \o <<DecimalDigits[(n % 10) + 1]>>

MaxOf(a, b) == IF a >= b THEN a ELSE b

\* The lines pushed from paragraph index at (0-based) on.
RECURSIVE HeadingLines(_, _, _, _, _)
HeadingLines(paragraphs, at, h2Index, h3Index, cfg) ==
    IF at >= Len(paragraphs) THEN <<>>
    ELSE IF at % cfg.safeH2Every = 0
    THEN <<<<"#", "#", " ">> \o cfg.safeH2Prefix \o <<" ">> \o ToDecimal(h2Index),
           paragraphs[at + 1]>>
         \o HeadingLines(paragraphs, at + 1, h2Index + 1, h3Index, cfg)
    ELSE IF cfg.safeH3Every > 0 /\ at % cfg.safeH3Every = 0
    THEN <<<<"#", "#", "#", " ">> \o cfg.safeH3Prefix \o <<" ">> \o ToDecimal(h3Index),
           paragraphs[at + 1]>>
         \o HeadingLines(paragraphs, at + 1, h2Index, h3Index + 1, cfg)
    ELSE <<paragraphs[at + 1]>> \o HeadingLines(paragraphs, at + 1, h2Index, h3Index, cfg)

\* safeH2Every, safeH3Every, safeH2Prefix and safeH3Prefix
safeHeadingConfig ==
    [safeH2Every |-> MaxOf(1, h2Every),
     safeH3Every |-> MaxOf(0, h3Every),
     safeH2Prefix |-> IF h2Prefix # <<>> THEN h2Prefix ELSE <<"S", "e", "c", "t", "i", "o", "n">>,
     safeH3Prefix |-> IF h3Prefix # <<>> THEN h3Prefix ELSE <<"P", "o", "i", "n", "t">>]

withHeadings(paragraphs) ==
    Join(HeadingLines(paragraphs, 0, 1, 1, safeHeadingConfig), <<"\n", "\n">>)

tooFewParagraphs(text) ==
    Len(splitParagraphs(text, autoHeadingParagraphTarget)) < autoHeadingMinParagraphs

applyAutoHeadings(text) ==
    IF ~autoHeadings THEN text
    ELSE IF Trim(text) = <<>> THEN text
    ELSE IF hasMarkdownHeadings(text) THEN text
    ELSE IF tooFewParagraphs(text) THEN text
    ELSE withHeadings(splitParagraphs(text, autoHeadingParagraphTarget))

MaxBodyChars == 5

HeadingAlphabet == {"a", ".", "\n", " ", "#"}

\* parsePositiveInt lets only positive numbers through.
MinParagraphs == {1, 3}
ParagraphTargets == {1, 3}
H2Everys == {1, 3}
H3Everys == {1, 2}

\* The prefixes are trimmed and never empty.
H2Prefixes == { <<"H">> }
H3Prefixes == { <<"P">> }

HeadingsInit ==
    /\ rawBody \in SeqsUpTo(HeadingAlphabet, MaxBodyChars)
    /\ autoHeadings \in BOOLEAN
    /\ autoHeadingMinParagraphs \in MinParagraphs
    /\ autoHeadingParagraphTarget \in ParagraphTargets
    /\ h2Every \in H2Everys
    /\ h3Every \in H3Everys
    /\ h2Prefix \in H2Prefixes
    /\ h3Prefix \in H3Prefixes
    /\ formattedBody = <<>>
    /\ formattedAgain = <<>>
    /\ hpc = "first"

HeadingsIdle ==
    /\ rawBody = <<>>
    /\ autoHeadings = FALSE
    /\ autoHeadingMinParagraphs = 1
    /\ autoHeadingParagraphTarget = 1
    /\ h2Every = 1
    /\ h3Every = 1
    /\ h2Prefix = <<>>
    /\ h3Prefix = <<>>
    /\ formattedBody = <<>>
    /\ formattedAgain = <<>>
    /\ hpc = "idle"

headingConfigVars == <<autoHeadings, autoHeadingMinParagraphs, autoHeadingParagraphTarget,
                       h2Every, h3Every, h2Prefix, h3Prefix>>

ReturnBody ==
    /\ formattedBody' = rawBody
    /\ hpc' = "second"
    /\ UNCHANGED <<rawBody, headingConfigVars, formattedAgain>>
    /\ OnlyHeadings

\* if (!autoHeadings) return body
HeadingsOff ==
    /\ hpc = "first"
    /\ ~autoHeadings
    /\ ReturnBody

\* if (!body.trim()) return body
BlankBody ==
    /\ hpc = "first"
    /\ autoHeadings
    /\ Trim(rawBody) = <<>>
    /\ ReturnBody

\* if (hasMarkdownHeadings(body)) return body
AlreadyHeaded ==
    /\ hpc = "first"
    /\ autoHeadings
    /\ Trim(rawBody) # <<>>
    /\ hasMarkdownHeadings(rawBody)
    /\ ReturnBody

\* if (paragraphs.length < autoHeadingMinParagraphs) return body
TooFewParagraphs ==
    /\ hpc = "first"
    /\ autoHeadings
    /\ Trim(rawBody) # <<>>
    /\ ~hasMarkdownHeadings(rawBody)
    /\ tooFewParagraphs(rawBody)
    /\ ReturnBody

\* The loop over the paragraphs and lines.join('\n\n').
InsertHeadings ==
    /\ hpc = "first"
    /\ autoHeadings
    /\ Trim(rawBody) # <<>>
    /\ ~hasMarkdownHeadings(rawBody)
    /\ ~tooFewParagraphs(rawBody)
    /\ formattedBody' = withHeadings(splitParagraphs(rawBody, autoHeadingParagraphTarget))
    /\ hpc' = "second"
    /\ UNCHANGED <<rawBody, headingConfigVars, formattedAgain>>
    /\ OnlyHeadings

\* applyAutoHeadings called on what it returned.
ApplyAgain ==
    /\ hpc = "second"
    /\ formattedAgain' = applyAutoHeadings(formattedBody)
    /\ hpc' = "done"
    /\ UNCHANGED <<rawBody, headingConfigVars, formattedBody>>
    /\ OnlyHeadings

HeadingsNext ==
    \/ HeadingsOff \/ BlankBody \/ AlreadyHeaded \/ TooFewParagraphs \/ InsertHeadings
    \/ ApplyAgain

-----------------------------------------------------------------------------
(* selectQuotes: the scan over the documents and their text blocks, one    *)
(* block a step.  The documents are read as the scan reaches them.         *)

\* The character U+2026 that ends a shortened quote.
Ellipsis == "ellipsis"

Rep(c, n) == [k \in 1..n |-> c]

\* A slip: the scan goes on until the count is above the limit.
limitReachedAbove(count, lim) == count > MaxOf(0, lim)

\* quotes.length >= safeLimit, with safeLimit = Math.max(0, Math.floor(limit))
limitReached(count, lim) == count >= MaxOf(0, lim)

\* A slip: one quote more is let through for each document.
perPagePlusOne == MaxOf(1, perPageLimit) + 1

\* perPage, minLength and maxLength as selectQuotes clamps them.
perPage == MaxOf(1, perPageLimit)
safeMinLength == MaxOf(10, minLength)
safeMaxLength == MaxOf(safeMinLength, maxLength)

\* A slip: the cut keeps maxLength characters before the ellipsis.
shortenKeepingAll(normalized) ==
    IF Len(normalized) > MaxOf(MaxOf(10, minLength), maxLength)
    THEN TrimEnd(Take(normalized, MaxOf(MaxOf(10, minLength), maxLength))) \o <<Ellipsis>>
    ELSE normalized

\* normalized.length > maxLength
\*   ? normalized.slice(0, maxLength - 1).trimEnd() + '…' : normalized
shorten(normalized) ==
    IF Len(normalized) > safeMaxLength
    THEN TrimEnd(Take(normalized, safeMaxLength - 1)) \o <<Ellipsis>>
    ELSE normalized

MaxPages == 2
MaxBlocksPerPage == 2

\* Text blocks as extractTextBlocks gives them: normalised and not empty.
QuoteBlocks ==
    { Rep("a", 5), Rep("a", 10), Rep("a", 11), Rep("a", 9) \o <<" ", "b", "b">>,
      Rep("b", 12) }

Limits == {-1, 0, 1, 2, 3}
PerPageLimits == {0, 1, 2}
MinLengths == {5, 10, 11}
MaxLengths == {9, 10, 11}

QuotesInit ==
    /\ limit \in Limits
    /\ perPageLimit \in PerPageLimits
    /\ minLength \in MinLengths
    /\ maxLength \in MaxLengths
    /\ quotes = <<>>
    /\ seen = {}
    /\ addedForPage = 0
    /\ pageAt = 0
    /\ blockAt = 0
    /\ quoteBlock = <<>>
    /\ qpc = "start"

QuotesIdle ==
    /\ limit = 0
    /\ perPageLimit = 0
    /\ minLength = 0
    /\ maxLength = 0
    /\ quotes = <<>>
    /\ seen = {}
    /\ addedForPage = 0
    /\ pageAt = 0
    /\ blockAt = 0
    /\ quoteBlock = <<>>
    /\ qpc = "idle"

quoteParams == <<limit, perPageLimit, minLength, maxLength>>

\* if (safeLimit === 0) return []
ReturnNoQuotes ==
    /\ qpc = "start"
    /\ MaxOf(0, limit) = 0
    /\ qpc' = "done"
    /\ UNCHANGED <<quoteParams, quotes, seen, addedForPage, pageAt, blockAt, quoteBlock>>
    /\ OnlyQuotes

StartScan ==
    /\ qpc = "start"
    /\ MaxOf(0, limit) # 0
    /\ qpc' = "page"
    /\ UNCHANGED <<quoteParams, quotes, seen, addedForPage, pageAt, blockAt, quoteBlock>>
    /\ OnlyQuotes

\* There is another document and quotes.length >= safeLimit: break
BreakAtLimit ==
    /\ qpc = "page"
    /\ pageAt < MaxPages
    /\ limitReached(Len(quotes), limit)
    /\ qpc' = "done"
    /\ UNCHANGED <<quoteParams, quotes, seen, addedForPage, pageAt, blockAt, quoteBlock>>
    /\ OnlyQuotes

\* There is another document: addedForPage = 0 and its blocks are taken.
OpenPage ==
    /\ qpc = "page"
    /\ pageAt < MaxPages
    /\ ~limitReached(Len(quotes), limit)
    /\ pageAt' = pageAt + 1
    /\ addedForPage' = 0
    /\ blockAt' = 0
    /\ qpc' = "block"
    /\ UNCHANGED <<quoteParams, quotes, seen, quoteBlock>>
    /\ OnlyQuotes

\* The documents are exhausted: return quotes
NoMorePages ==
    /\ qpc = "page"
    /\ qpc' = "done"
    /\ UNCHANGED <<quoteParams, quotes, seen, addedForPage, pageAt, blockAt, quoteBlock>>
    /\ OnlyQuotes

\* if (normalized.length < minLength) continue
SkipShortBlock ==
    /\ qpc = "block"
    /\ blockAt < MaxBlocksPerPage
    /\ quoteBlock' \in QuoteBlocks
    /\ Len(normalizeWhitespace(quoteBlock')) < safeMinLength
    /\ blockAt' = blockAt + 1
    /\ UNCHANGED <<quoteParams, quotes, seen, addedForPage, pageAt, qpc>>
    /\ OnlyQuotes

\* if (seen.has(shortened)) continue
SkipSeenBlock ==
    /\ qpc = "block"
    /\ blockAt < MaxBlocksPerPage
    /\ quoteBlock' \in QuoteBlocks
    /\ Len(normalizeWhitespace(quoteBlock')) >= safeMinLength
    /\ shorten(normalizeWhitespace(quoteBlock')) \in seen
    /\ blockAt' = blockAt + 1
    /\ UNCHANGED <<quoteParams, quotes, seen, addedForPage, pageAt, qpc>>
    /\ OnlyQuotes

\* The block is long enough and new: it is shortened, remembered and pushed;
\* the document is left when it has given perPage quotes or the limit is
\* reached.
AddQuote ==
    /\ qpc = "block"
    /\ blockAt < MaxBlocksPerPage
    /\ quoteBlock' \in QuoteBlocks
    /\ Len(normalizeWhitespace(quoteBlock')) >= safeMinLength
    /\ shorten(normalizeWhitespace(quoteBlock')) \notin seen
    /\ seen' = seen \cup {shorten(normalizeWhitespace(quoteBlock'))}
    /\ quotes' = Append(quotes, [text |-> shorten(normalizeWhitespace(quoteBlock')),
                                  page |-> pageAt])
    /\ addedForPage' = addedForPage + 1
    /\ blockAt' = blockAt + 1
    /\ qpc' = IF addedForPage + 1 >= perPage \/ limitReached(Len(quotes) + 1, limit)
              THEN "page" ELSE "block"
    /\ UNCHANGED <<quoteParams, pageAt>>
    /\ OnlyQuotes

\* The blocks of the document are exhausted.
EndOfBlocks ==
    /\ qpc = "block"
    /\ qpc' = "page"
    /\ UNCHANGED <<quoteParams, quotes, seen, addedForPage, pageAt, blockAt, quoteBlock>>
    /\ OnlyQuotes

QuotesNext ==
    \/ ReturnNoQuotes \/ StartScan \/ BreakAtLimit \/ OpenPage \/ NoMorePages
    \/ SkipShortBlock \/ SkipSeenBlock \/ AddQuote \/ EndOfBlocks

-----------------------------------------------------------------------------
(* The title of the draft: extractTitleFromAttributes, the title that      *)
(* resolveDraftArticle gives the draft, chooseFallbackTitle and the        *)
(* assignment of main.                                                     *)

\* A text that may be undefined.
Undefined == [defined |-> FALSE, text |-> <<>>]
Defined(t) == [defined |-> TRUE, text |-> t]

\* a ?? b
Coalesce(a, b) == IF a.defined THEN a ELSE b

\* a || b
OrElse(a, b) == IF a.defined /\ a.text # <<>> THEN a ELSE b

\* The placeholder title of chooseFallbackTitle.
Untitled == <<"untitled">>

\* for (const page of detailPages) if (page.title) return page.title
RECURSIVE chooseFallbackTitle(_)
chooseFallbackTitle(titles) ==
    IF titles = <<>> THEN Untitled
    ELSE IF titles[1] # <<>> THEN titles[1]
    ELSE chooseFallbackTitle(Tail(titles))

\* attributes.title ?? attributes.name, then the first item of a list or the
\* trimmed text, an empty text counting as undefined.
extractTitleFromAttributes(attrs) ==
    LET key == IF <<"t", "i", "t", "l", "e">> \in DOMAIN attrs
               THEN <<"t", "i", "t", "l", "e">> ELSE <<"n", "a", "m", "e">>
    IN IF key \notin DOMAIN attrs THEN Undefined
       ELSE IF attrs[key].isArray
       THEN IF attrs[key].items = <<>> THEN Undefined
            ELSE Defined(Trim(attrs[key].items[1]))
       ELSE IF Trim(attrs[key].text) = <<>> THEN Undefined
       ELSE Defined(Trim(attrs[key].text))

MaxTitlePages == 2

\* POST_TITLE unset, set to nothing, or set.
TitleOverrides == { Undefined, Defined(<<>>), Defined(<<"o">>) }

TitleAttributes ==
    { NoAttributes,
      SetAttribute(NoAttributes, <<"t", "i", "t", "l", "e">>, Scalar(<<"x">>)),
      SetAttribute(NoAttributes, <<"t", "i", "t", "l", "e">>, Array(<<<<"y">>, <<"z">>>>)),
      SetAttribute(NoAttributes, <<"t", "i", "t", "l", "e">>, Array(<<>>)),
      SetAttribute(NoAttributes, <<"n", "a", "m", "e">>, Scalar(<<"n">>)),
      SetAttribute(NoAttributes, <<"t", "a", "g", "s">>, Array(<<<<"a">>>>)) }

GeneratedTitles == { <<>>, <<"g">> }
PageTitles == { <<>>, <<"p">>, <<"q">> }

TitleInit ==
    /\ postTitleOverride \in TitleOverrides
    /\ draftAttributes \in TitleAttributes
    /\ generatedTitle \in GeneratedTitles
    /\ pageTitles \in SeqsUpTo(PageTitles, MaxTitlePages)
    /\ draftKind = "none"
    /\ draftTitle = Undefined
    /\ tlpc = "resolve"

TitleIdle ==
    /\ postTitleOverride = Undefined
    /\ draftAttributes = NoAttributes
    /\ generatedTitle = <<>>
    /\ pageTitles = <<>>
    /\ draftKind = "none"
    /\ draftTitle = Undefined
    /\ tlpc = "idle"

\* resolveDraftArticle with a body given (POST_BODY or the body file):
\* title: postTitleOverride ?? extractTitleFromAttributes(attributes) ?? ''
ResolveGivenBody ==
    /\ tlpc = "resolve"
    /\ draftKind' = "given"
    /\ draftTitle' = Coalesce(postTitleOverride,
                        Coalesce(extractTitleFromAttributes(draftAttributes), Defined(<<>>)))
    /\ tlpc' = "assign"
    /\ UNCHANGED <<postTitleOverride, draftAttributes, generatedTitle, pageTitles>>
    /\ OnlyTitle

\* resolveDraftArticle with a generated draft: the title is the one
\* parseGeneratedArticle found, possibly empty.
ResolveGenerated ==
    /\ tlpc = "resolve"
    /\ draftKind' = "generated"
    /\ draftTitle' = Defined(generatedTitle)
    /\ tlpc' = "assign"
    /\ UNCHANGED <<postTitleOverride, draftAttributes, generatedTitle, pageTitles>>
    /\ OnlyTitle

\* main: draftArticle.title = postTitleOverride || draftArticle.title || fallbackTitle
AssignTitle ==
    /\ tlpc = "assign"
    /\ draftTitle' = OrElse(postTitleOverride,
                        OrElse(draftTitle, Defined(chooseFallbackTitle(pageTitles))))
    /\ tlpc' = "done"
    /\ UNCHANGED <<postTitleOverride, draftAttributes, generatedTitle, pageTitles, draftKind>>
    /\ OnlyTitle

TitleNext == ResolveGivenBody \/ ResolveGenerated \/ AssignTitle

-----------------------------------------------------------------------------
(* The length limit of a generated body: clampBodyLength.                  *)

\* A slip: the separator is not counted.
RECURSIVE FitChunksNoSeparator(_, _, _, _, _)
FitChunksNoSeparator(paragraphs, at, chunks, count, maxChars) ==
    IF at > Len(paragraphs) \/ count + Len(paragraphs[at]) > maxChars THEN chunks
    ELSE FitChunksNoSeparator(paragraphs, at + 1, Append(chunks, paragraphs[at]),
                              count + Len(paragraphs[at]), maxChars)

\* The loop of clampBodyLength from paragraph number at on: a paragraph is
\* taken while the count, the separator and its length stay within maxChars.
RECURSIVE FitChunks(_, _, _, _, _)
FitChunks(paragraphs, at, chunks, count, maxChars) ==
    IF at > Len(paragraphs) THEN chunks
    ELSE LET separator == IF Len(chunks) > 0 THEN 2 ELSE 0
             nextCount == count + separator + Len(paragraphs[at])
         IN IF nextCount > maxChars THEN chunks
            ELSE FitChunks(paragraphs, at + 1, Append(chunks, paragraphs[at]),
                           nextCount, maxChars)

\* body.split(/\n{2,}/).map((p) => p.trim()).filter(Boolean), and the
\* chunks the loop takes of them.
clampChunks(text, maxChars) ==
    FitChunks(TrimParts(SplitBlankLines(text, 1, <<>>)), 1, <<>>, 0, maxChars)

clampBodyLength(text, maxChars) ==
    IF maxChars <= 0 \/ Len(text) <= maxChars THEN text
    ELSE IF Len(clampChunks(text, maxChars)) > 0
    THEN Trim(Take(Join(clampChunks(text, maxChars), <<"\n", "\n">>), maxChars))
    ELSE Trim(Take(text, maxChars))

MaxClampChars == 7

ClampAlphabet == {"a", " ", "\n"}

\* articleCharMax is the larger of two positive numbers.
ClampLimits == 1..(MaxClampChars - 1)

ClampInit ==
    /\ bodyWithHeadings \in SeqsUpTo(ClampAlphabet, MaxClampChars)
    /\ articleCharMax \in ClampLimits
    /\ trimmedBody = <<>>
    /\ cpc = "clamp"

ClampIdle ==
    /\ bodyWithHeadings = <<>>
    /\ articleCharMax = 1
    /\ trimmedBody = <<>>
    /\ cpc = "idle"

\* if (maxChars <= 0 || body.length <= maxChars) return body
ReturnWholeBody ==
    /\ cpc = "clamp"
    /\ articleCharMax <= 0 \/ Len(bodyWithHeadings) <= articleCharMax
    /\ trimmedBody' = clampBodyLength(bodyWithHeadings, articleCharMax)
    /\ cpc' = "done"
    /\ UNCHANGED <<bodyWithHeadings, articleCharMax>>
    /\ OnlyClamp

\* if (chunks.length > 0) return chunks.join('\n\n').slice(0, maxChars).trim()
ReturnChunks ==
    /\ cpc = "clamp"
    /\ ~(articleCharMax <= 0 \/ Len(bodyWithHeadings) <= articleCharMax)
    /\ Len(clampChunks(bodyWithHeadings, articleCharMax)) > 0
    /\ trimmedBody' = clampBodyLength(bodyWithHeadings, articleCharMax)
    /\ cpc' = "done"
    /\ UNCHANGED <<bodyWithHeadings, articleCharMax>>
    /\ OnlyClamp

\* return body.slice(0, maxChars).trim()
ReturnHardCut ==
    /\ cpc = "clamp"
    /\ ~(articleCharMax <= 0 \/ Len(bodyWithHeadings) <= articleCharMax)
    /\ Len(clampChunks(bodyWithHeadings, articleCharMax)) = 0
    /\ trimmedBody' = clampBodyLength(bodyWithHeadings, articleCharMax)
    /\ cpc' = "done"
    /\ UNCHANGED <<bodyWithHeadings, articleCharMax>>
    /\ OnlyClamp

ClampNext == ReturnWholeBody \/ ReturnChunks \/ ReturnHardCut

-----------------------------------------------------------------------------
(* Specifications, one per component.                                      *)

InitParser ==
    /\ ParserInit
    /\ TypistIdle
    /\ LocatorIdle
    /\ ComposerIdle
    /\ FrontMatterIdle
    /\ HeadingsIdle
    /\ QuotesIdle
    /\ TitleIdle
    /\ ClampIdle
SpecParser == InitParser /\ [][ParserNext]_vars

InitTypist ==
    /\ TypistInit
    /\ ParserIdle
    /\ LocatorIdle
    /\ ComposerIdle
    /\ FrontMatterIdle
    /\ HeadingsIdle
    /\ QuotesIdle
    /\ TitleIdle
    /\ ClampIdle
SpecTypist == InitTypist /\ [][TypistNext]_vars

InitLocator ==
    /\ LocatorInit
    /\ ParserIdle
    /\ TypistIdle
    /\ ComposerIdle
    /\ FrontMatterIdle
    /\ HeadingsIdle
    /\ QuotesIdle
    /\ TitleIdle
    /\ ClampIdle
SpecLocator == InitLocator /\ [][LocatorNext]_vars

InitComposer ==
    /\ ComposerInit
    /\ ParserIdle
    /\ TypistIdle
    /\ LocatorIdle
    /\ FrontMatterIdle
    /\ HeadingsIdle
    /\ QuotesIdle
    /\ TitleIdle
    /\ ClampIdle
SpecComposer == InitComposer /\ [][ComposerNext]_vars

InitFrontMatter ==
    /\ FrontMatterInit
    /\ ParserIdle
    /\ TypistIdle
    /\ LocatorIdle
    /\ ComposerIdle
    /\ HeadingsIdle
    /\ QuotesIdle
    /\ TitleIdle
    /\ ClampIdle
SpecFrontMatter == InitFrontMatter /\ [][FrontMatterNext]_vars

InitHeadings ==
    /\ HeadingsInit
    /\ ParserIdle
    /\ TypistIdle
    /\ LocatorIdle
    /\ ComposerIdle
    /\ FrontMatterIdle
    /\ QuotesIdle
    /\ TitleIdle
    /\ ClampIdle
SpecHeadings == InitHeadings /\ [][HeadingsNext]_vars

InitQuotes ==
    /\ QuotesInit
    /\ ParserIdle
    /\ TypistIdle
    /\ LocatorIdle
    /\ ComposerIdle
    /\ FrontMatterIdle
    /\ HeadingsIdle
    /\ TitleIdle
    /\ ClampIdle
SpecQuotes == InitQuotes /\ [][QuotesNext]_vars

InitTitle ==
    /\ TitleInit
    /\ ParserIdle
    /\ TypistIdle
    /\ LocatorIdle
    /\ ComposerIdle
    /\ FrontMatterIdle
    /\ HeadingsIdle
    /\ QuotesIdle
    /\ ClampIdle
SpecTitle == InitTitle /\ [][TitleNext]_vars

InitClamp ==
    /\ ClampInit
    /\ ParserIdle
    /\ TypistIdle
    /\ LocatorIdle
    /\ ComposerIdle
    /\ FrontMatterIdle
    /\ HeadingsIdle
    /\ QuotesIdle
    /\ TitleIdle
SpecClamp == InitClamp /\ [][ClampNext]_vars

-----------------------------------------------------------------------------
(* The editor actions of the translator's output contract: what each       *)
(* keyboard event means to the editor.                                     *)

BlockKinds == {"paragraph", "h2", "h3", "ul", "ol", "quote", "code"}

ActBlock(kind) == [act |-> "block", arg |-> kind, text |-> <<>>]
ActToggle(style) == [act |-> "toggle", arg |-> style, text |-> <<>>]
ActType(text) == [act |-> "type", arg |-> "", text |-> text]
ActEnter == [act |-> "enter", arg |-> "", text |-> <<>>]

EditorAction(ev) ==
    IF ev.op = "type" THEN ActType(ev.text)
    ELSE IF ev = KeyEnter THEN ActEnter
    ELSE IF ev.combo = <<commandKey, "KeyB">> THEN ActToggle("bold")
    ELSE IF ev.combo = <<commandKey, "Shift", "KeyX">> THEN ActToggle("strike")
    ELSE IF \E kind \in BlockKinds : <<ev>> = applyBlockShortcut(commandKey, kind)
    THEN ActBlock(CHOOSE kind \in BlockKinds : <<ev>> = applyBlockShortcut(commandKey, kind))
    ELSE [act |-> "unknown", arg |-> "", text |-> <<>>]

EditorActions(events) == [k \in 1..Len(events) |-> EditorAction(events[k])]

-----------------------------------------------------------------------------
(* C1: heading and paragraph lines.                                        *)

\* The actions the claim gives for the runs of one line from run k on, with
\* the running inline state: a toggle for each flag that differs, the text,
\* and at the end the toggles that switch bold and strike off.
RECURSIVE RunActions(_, _, _, _)
RunActions(segments, k, bold, strike) ==
    IF k > Len(segments)
    THEN (IF bold THEN <<ActToggle("bold")>> ELSE <<>>)
         \o (IF strike THEN <<ActToggle("strike")>> ELSE <<>>)
    ELSE (IF segments[k].bold # bold THEN <<ActToggle("bold")>> ELSE <<>>)
         \o (IF segments[k].strike # strike THEN <<ActToggle("strike")>> ELSE <<>>)
         \o <<ActType(segments[k].text)>>
         \o RunActions(segments, k + 1, segments[k].bold, segments[k].strike)

\* The actions the claim gives for the lines from line k on, with the
\* running block kind.
RECURSIVE LineActions(_, _, _)
LineActions(ls, k, running) ==
    IF k > Len(ls) THEN <<>>
    ELSE LET block == parseBlockLine(ls[k], FALSE)
         IN  (IF block.kind # running THEN <<ActBlock(block.kind)>> ELSE <<>>)
             \o RunActions(parseInlineSegments(block.text), 1, FALSE, FALSE)
             \o <<ActEnter>>
             \o LineActions(ls, k + 1, block.kind)

HeadingOrParagraphLines ==
    \A k \in 1..Len(lines) :
        /\ ~isCodeFence(lines[k])
        /\ Trim(lines[k]) # <<>>
        /\ parseBlockLine(lines[k], FALSE).kind \in {"h2", "h3", "paragraph"}

ExampleActions ==
    << ActBlock("h2"), ActType(<<"I", "n", "t", "r", "o">>), ActEnter,
       ActBlock("paragraph"), ActToggle("bold"), ActType(<<"b", "o", "l", "d">>),
       ActToggle("bold"), ActType(<<" ", "t", "e", "x", "t">>), ActEnter >>

-----------------------------------------------------------------------------
(* C6, C7: what the segmenter owes to the line.                            *)

\* A leading block marker: one to three number signs, a greater-than sign,
\* a hyphen, an asterisk, a plus sign, or digits and a full stop.
IsBlockMarker(m) ==
    \/ m \in { <<"#">>, <<"#", "#">>, <<"#", "#", "#">>, <<">">>,
                <<"-">>, <<"*">>, <<"+">> }
    \/ /\ Len(m) >= 2
       /\ m[Len(m)] = "."
       /\ \A k \in 1..(Len(m) - 1) : IsDigit(m[k])

\* The line without its leading block marker: when the line, after its
\* leading whitespace, starts with a marker and whitespace, what follows
\* them; the line itself otherwise.
WithoutBlockMarker(line) ==
    LET t == TrimStart(line)
        ns == {n \in 1..(Len(t) - 1) : IsBlockMarker(Take(t, n)) /\ IsSpace(t[n + 1])}
    IN  IF ns = {} THEN line
        ELSE TrimStart(Drop(t, CHOOSE n \in ns : TRUE))

\* The text without its inline markers, recognised greedily from the left.
RECURSIVE WithoutInlineMarkers(_)
WithoutInlineMarkers(text) ==
    IF text = <<>> THEN <<>>
    ELSE IF StartsWith(text, BoldMarker) \/ StartsWith(text, StrikeMarker)
    THEN WithoutInlineMarkers(Drop(text, 2))
    ELSE <<Head(text)>> \o WithoutInlineMarkers(Tail(text))

RECURSIVE ConcatTexts(_)
ConcatTexts(segments) ==
    IF segments = <<>> THEN <<>>
    ELSE Head(segments).text \o ConcatTexts(Tail(segments))

RECURSIVE MarkersFrom(_, _)
MarkersFrom(text, at) ==
    IF at > Len(text) THEN {}
    ELSE IF StartsWithAt(text, BoldMarker, at)
    THEN {<<at, "bold">>} \cup MarkersFrom(text, at + 2)
    ELSE IF StartsWithAt(text, StrikeMarker, at)
    THEN {<<at, "strike">>} \cup MarkersFrom(text, at + 2)
    ELSE MarkersFrom(text, at + 1)

Odd(n) == n % 2 = 1

\* The runs of a text: the maximal stretches of characters that belong to
\* no marker, each with bold (strike) on iff an odd number of bold (strike)
\* markers stand before it.
RunsOf(text) ==
    LET markers == MarkersFrom(text, 1)
        inMarker == {m[1] : m \in markers} \cup {m[1] + 1 : m \in markers}
        plain == (1..Len(text)) \ inMarker
        starts == {p \in plain : p - 1 \notin plain}
        endOf(p) == CHOOSE q \in plain :
                        /\ q >= p
                        /\ q + 1 \notin plain
                        /\ \A r \in p..q : r \in plain
        before(p, style) == Cardinality({m \in markers : m[2] = style /\ m[1] < p})
        nth(n) == CHOOSE p \in starts : Cardinality({q \in starts : q < p}) = n - 1
    IN  [n \in 1..Cardinality(starts) |->
            [text |-> SubSeq(text, nth(n), endOf(nth(n))),
             bold |-> Odd(before(nth(n), "bold")),
             strike |-> Odd(before(nth(n), "strike"))]]

ExampleSegments ==
    << [text |-> <<"a">>, bold |-> FALSE, strike |-> FALSE],
       [text |-> <<"b">>, bold |-> TRUE, strike |-> FALSE],
       [text |-> <<"c">>, bold |-> FALSE, strike |-> FALSE] >>

\* C7: every segment is bold iff an odd number of bold markers stand before
\* it in the text, and struck iff an odd number of strike markers do; the
\* line a, bold marker, b, bold marker, c gives a plain, b bold, c plain.
C7_SegmentFlags ==
    ppc = "segmented"
        => /\ pSegments = RunsOf(pBlock.text)
           /\ pLine = <<"a", "*", "*", "b", "*", "*", "c">> => pSegments = ExampleSegments

C7_Witness ==
    /\ ppc = "segmented"
    /\ pLine = <<"a", "*", "*", "b", "*", "*", "c">>
    /\ Len(pSegments) = 3
    /\ pSegments[2].bold


-----------------------------------------------------------------------------
(* C2, C3: what the locator returns, and when.                             *)

\* C2: a returned pair names an element that was on the page with width > 0
\* and height > 0 when it was inspected; in the round that returns it the
\* candidates before it were inspected in order and none qualified; without
\* a qualifying candidate the locator returns null, once the timeout has
\* elapsed, and never raises.
C2_ReturnsFirstQualifying ==
    /\ lpc # "threw"
    /\ (lpc = "done" /\ result # NotFound)
        => LET k == Len(inspected)
           IN  /\ k >= 1
               /\ selectors[k] = result.selector
               /\ inspected[k].selector = result.selector
               /\ inspected[k].state = "visible"
               /\ result.handle \in handles
               /\ \A j \in 1..(k - 1) :
                     /\ inspected[j].selector = selectors[j]
                     /\ inspected[j].state # "visible"
    /\ (lpc = "done" /\ result = NotFound)
        => /\ now >= timeoutMs
           /\ \A j \in 1..Len(inspected) : inspected[j].state # "visible"

C2_Witness ==
    /\ lpc = "done"
    /\ result.selector = 2
    /\ Len(inspected) = 2
    /\ inspected[1].state = "flat"

-----------------------------------------------------------------------------
(* Title filling and the fatal and recoverable outcomes of the composer.   *)

StepsOf(log) == { log[k] : k \in DOMAIN log }
PositionsOf(log, step) == { k \in DOMAIN log : log[k] = step }

\* The words of a text: its maximal runs of characters that are not white.
RECURSIVE WordsFrom(_, _, _)
WordsFrom(text, at, word) ==
    IF at > Len(text)
    THEN IF word = <<>> THEN <<>> ELSE <<word>>
    ELSE IF text[at] \in {" ", "\t", "\n"}
    THEN (IF word = <<>> THEN <<>> ELSE <<word>>) \o WordsFrom(text, at + 1, <<>>)
    ELSE WordsFrom(text, at + 1, Append(word, text[at]))

SameWords(a, b) == WordsFrom(a, 1, <<>>) = WordsFrom(b, 1, <<>>)

FallbackSteps == {"titleFallback", "titleFallbackNoElement"}

\* The read-back of the title has been compared with the title.
TitleDecided == "titleRead" \in StepsOf(did) /\ mpc # "verifyTitle"

\* The fallback comes at most once, after the typing and after the read-back
\* that follows the typing.
FallbackOnceAndLast ==
    /\ Cardinality({ k \in DOMAIN did : did[k] \in FallbackSteps }) <= 1
    /\ \A k \in DOMAIN did :
          did[k] \in FallbackSteps =>
             \E typed \in 1..(k - 1), read \in 1..(k - 1) :
                typed < read /\ did[typed] = "titleTyped" /\ did[read] = "titleRead"

\* C4, as stated: once the title is typed and read back, the value is
\* assigned programmatically exactly when the read-back and the title differ
\* after whitespace normalisation; the fallback runs at most once, after the
\* typing and the read-back.
C4_AssignedIffMismatch ==
    /\ TitleDecided =>
          ("titleFallback" \in StepsOf(did) <=> ~SameWords(titleValue, draftArticle.title))
    /\ FallbackOnceAndLast

\* C4, amended: the fallback step is entered exactly when the read-back and
\* the title differ after whitespace normalisation, at most once, after the
\* typing and the read-back; it assigns the value only when the selector
\* still finds the field, and otherwise returns having assigned nothing.
C4_FallbackEnteredIffMismatch ==
    /\ TitleDecided =>
          (StepsOf(did) \cap FallbackSteps # {} <=> ~SameWords(titleValue, draftArticle.title))
    /\ FallbackOnceAndLast

\* A title that came back without its blanks and was assigned by the
\* fallback.
C4_Witness ==
    /\ TitleDecided
    /\ draftArticle.title = <<"a", " ", " ", "b">>
    /\ titleValue = <<"a", "b">>
    /\ "titleFallback" \in StepsOf(did)

\* C5: the title input is looked for only when a non-empty title is to be
\* filled; when it is not found nothing more is done in the composer and the
\* run ends with exit code 1.  A tag input that is not found stops nothing:
\* the thumbnail, when there is one, and the post action, when one is
\* configured, are still attempted, and the exit code is left alone.
C5_TitleFatalTagsRecoverable ==
    /\ "titleNotFound" \in StepsOf(did) =>
          /\ fillPostTitle /\ draftArticle.title # <<>>
          /\ did[Len(did)] = "titleNotFound"
          /\ mpc \in {"catch", "finally", "done"}
          /\ mpc \in {"finally", "done"} => exitCode = 1
    /\ "tagsNotFound" \in StepsOf(did) =>
          /\ exitCode = (IF "draftFailed" \in StepsOf(did) THEN 1 ELSE 0)
          /\ mpc # "catch"
          /\ mpc = "done" =>
                \A k \in PositionsOf(did, "tagsNotFound") :
                   /\ draftArticle.thumbnail =>
                         \E later \in (k + 1)..Len(did) :
                            did[later] \in {"thumbnail", "thumbnailNotUploaded"}
                   /\ hasPostAction =>
                         \E later \in (k + 1)..Len(did) :
                            did[later] \in {"postAction", "postActionNotFound"}

\* A run that ended on the missing title input, with tags, a thumbnail and
\* a post action all waiting.
C5_Witness ==
    /\ mpc = "done"
    /\ "titleNotFound" \in StepsOf(did)
    /\ draftArticle.tags /\ draftArticle.thumbnail /\ hasPostAction
    /\ exitCode = 1

\* A run that ended after the tag input was not found and the thumbnail and
\* the post action were done all the same.
C5_WitnessTags ==
    /\ mpc = "done"
    /\ "tagsNotFound" \in StepsOf(did)
    /\ "thumbnail" \in StepsOf(did)
    /\ "postAction" \in StepsOf(did)

-----------------------------------------------------------------------------
(* Front matter attributes.                                                *)

\* The key of a key: value line as the fenced region is documented: the
\* characters before the colon when they are key characters, <<>> for any
\* other line.
PlainKeyOf(line) ==
    LET t == Trim(line)
        k == SkipKeyChars(t, 1)
    IN IF k > 1 /\ k <= Len(t) /\ t[k] = ":" THEN Take(t, k - 1) ELSE <<>>

ExampleAttributes ==
    [k \in {<<"t", "i", "t", "l", "e">>, <<"t", "a", "g", "s">>} |->
        IF k = <<"t", "i", "t", "l", "e">> THEN Scalar(<<"H", "e", "l", "l", "o">>) ELSE Array(<<<<"a">>, <<"b">>>>)]

\* C8: when parseFrontMatter has returned for a text with an opening and a
\* closing fence, every key: value line of the fenced region has its entry
\* in the attributes; for the example the attributes are title = Hello and
\* tags = [a, b], and the body is Body text.
C8_FrontMatterAttributes ==
    fpc = "done" =>
       /\ \A n \in DOMAIN matterLines :
             PlainKeyOf(matterLines[n]) # <<>> =>
                PlainKeyOf(matterLines[n]) \in DOMAIN attributes
       /\ content = ExampleContent =>
             attributes = ExampleAttributes /\ fmBody = <<"B", "o", "d", "y", " ", "t", "e", "x", "t">>

\* What the program returns for the example: the body, and no attribute.
C8_Witness ==
    /\ fpc = "done"
    /\ content = ExampleContent
    /\ Len(matterLines) = 2
    /\ attributes = NoAttributes
    /\ fmBody = <<"B", "o", "d", "y", " ", "t", "e", "x", "t">>

-----------------------------------------------------------------------------
(* Automatic headings applied twice.                                       *)

IsLevel2HeadingLine(line) == StartsWith(line, <<"#", "#", " ">>) /\ Len(line) > 3
IsLevel3HeadingLine(line) == StartsWith(line, <<"#", "#", "#", " ">>) /\ Len(line) > 4

\* C9: applying applyAutoHeadings to what it returned returns the same
\* text, for every body and configuration; and a body that came back
\* changed holds a line that is a level-2 heading.
C9_AutoHeadingsIdempotent ==
    /\ hpc = "done" => formattedAgain = formattedBody
    /\ hpc \in {"second", "done"} /\ formattedBody # rawBody =>
          \E n \in DOMAIN SplitLines(formattedBody) :
             IsLevel2HeadingLine(SplitLines(formattedBody)[n])

\* Three sentences that became three paragraphs under a level-2 and a
\* level-3 heading, and went through the second application.
C9_Witness ==
    /\ hpc = "done"
    /\ rawBody = <<"a", ".", "a", ".", "a">>
    /\ formattedBody # rawBody
    /\ \E n \in DOMAIN SplitLines(formattedBody) :
          IsLevel3HeadingLine(SplitLines(formattedBody)[n])

-----------------------------------------------------------------------------
(* The number of quotes.                                                   *)

\* C10: at every point of the scan and at the return the quotes are at most
\* limit (none for a limit of zero or less), whatever the other parameters
\* and the documents; no block is looked at once the limit is reached.
C10_AtMostLimitQuotes ==
    /\ Len(quotes) <= (IF limit > 0 THEN limit ELSE 0)
    /\ qpc = "block" => Len(quotes) < limit

\* The scan stopped with the limit reached in the first document and a
\* second document still to come.
C10_Witness ==
    /\ qpc = "done"
    /\ limit = 2
    /\ Len(quotes) = 2
    /\ pageAt = 1

-----------------------------------------------------------------------------
(* The length of a quote and the quotes of one document.                   *)

\* C11, as stated: every quote is at most maxLength characters long.
C11_WithinMaxLength ==
    \A n \in DOMAIN quotes : Len(quotes[n].text) <= maxLength

\* C11, amended: every quote is at most as long as the larger of maxLength,
\* minLength and 10, the ellipsis of a shortened quote included.
C11_WithinRaisedMaxLength ==
    \A n \in DOMAIN quotes :
       \/ Len(quotes[n].text) <= maxLength
       \/ Len(quotes[n].text) <= minLength
       \/ Len(quotes[n].text) <= 10

\* A block of twelve characters returned as eleven, the last the ellipsis.
C11_Witness ==
    /\ qpc = "done"
    /\ maxLength = 11
    /\ \E n \in DOMAIN quotes :
          /\ Len(quotes[n].text) = 11
          /\ quotes[n].text[11] = Ellipsis

QuotesOfPage(p) == { n \in DOMAIN quotes : quotes[n].page = p }

\* C12, as stated: no document gives more than perPageLimit quotes.
C12_AtMostPerPageLimit ==
    \A p \in 1..MaxPages : Cardinality(QuotesOfPage(p)) <= perPageLimit

\* C12, amended: no document gives more quotes than the larger of
\* perPageLimit and 1; the count kept for the document under the scan is the
\* number of its quotes, so a block skipped as too short or as seen is not
\* counted.
C12_AtMostRaisedPerPageLimit ==
    /\ \A p \in 1..MaxPages :
          Cardinality(QuotesOfPage(p)) <= (IF perPageLimit > 1 THEN perPageLimit ELSE 1)
    /\ qpc = "block" => addedForPage = Cardinality(QuotesOfPage(pageAt))

\* The first document gave its two quotes; in the second the first block
\* was one already seen, and it was skipped without being counted.
C12_Witness ==
    /\ qpc = "block"
    /\ perPageLimit = 2
    /\ Cardinality(QuotesOfPage(1)) = 2
    /\ pageAt = 2 /\ blockAt = 1 /\ addedForPage = 0
    /\ \E n \in DOMAIN quotes : quotes[n].text = quoteBlock

-----------------------------------------------------------------------------
(* Element handles.                                                        *)

\* C13: when a caller of the locator has finished (the readiness check,
\* fillPostComposer on its return or its throw, fillPostTags), every handle
\* the locator returned to it has been disposed.
C13_HandlesDisposed ==
    mpc \in {"filled", "tags", "thumbnail", "postAction", "catch", "finally", "done"} =>
       undisposed = 0

\* A run that filled title, body and tags and ended with the three handles
\* still open; the two of the readiness check were disposed.
C13_Witness ==
    /\ mpc = "done"
    /\ {"open", "titleTyped", "bodyTyped", "tagsTyped"} \subseteq StepsOf(did)
    /\ undisposed = 3

-----------------------------------------------------------------------------
(* The final title.                                                        *)

\* The first text of a list that is not empty, <<>> when all are.
RECURSIVE FirstNonEmpty(_)
FirstNonEmpty(texts) ==
    IF texts = <<>> THEN <<>>
    ELSE IF texts[1] # <<>> THEN texts[1]
    ELSE FirstNonEmpty(Tail(texts))

\* The title attribute of the front matter: the text under title (the first
\* item of a list), or under name when there is no title.
ParsedTitle ==
    LET under(key) ==
           IF key \notin DOMAIN draftAttributes THEN <<>>
           ELSE IF ~draftAttributes[key].isArray THEN draftAttributes[key].text
           ELSE IF draftAttributes[key].items = <<>> THEN <<>>
           ELSE draftAttributes[key].items[1]
    IN IF <<"t", "i", "t", "l", "e">> \in DOMAIN draftAttributes
       THEN under(<<"t", "i", "t", "l", "e">>)
       ELSE under(<<"n", "a", "m", "e">>)

\* The first source document's title that is not empty, or the placeholder.
FallbackTitle == FirstNonEmpty(pageTitles \o <<Untitled>>)

\* C14: the final title is the first non-empty text among the override, the
\* parsed title attribute (a given body), the generated title (a generated
\* draft) and the fallback title; it is never empty.
C14_FirstNonEmptyTitle ==
    tlpc = "done" =>
       /\ draftTitle.defined /\ draftTitle.text # <<>>
       /\ draftTitle.text =
             FirstNonEmpty(<<postTitleOverride.text,
                             IF draftKind = "given" THEN ParsedTitle ELSE <<>>,
                             IF draftKind = "generated" THEN generatedTitle ELSE <<>>,
                             FallbackTitle>>)

\* POST_TITLE set to nothing and a front matter title x: the final title is
\* the fallback title, not x.
C14_Witness ==
    /\ tlpc = "done"
    /\ draftKind = "given"
    /\ postTitleOverride = Defined(<<>>)
    /\ ParsedTitle = <<"x">>
    /\ draftTitle.text = FallbackTitle

-----------------------------------------------------------------------------
(* A failure of the draft preparation.                                     *)

ComposerSteps ==
    { "open", "titleTyped", "titleRead", "titleFallback", "bodyTyped", "bodyRead",
      "bodyFallback", "filled", "tagsTyped", "thumbnail", "postAction" }

\* C15: when the draft preparation fails and generation was asked for, the
\* run ends with exit code 1 and no composer step (opening the composer,
\* filling, tags, thumbnail, post action) follows the failure; when
\* generation was not asked for the failure leaves the exit code alone and
\* the run goes on as after a prepared draft.
C15_DraftFailureFatal ==
    \A k \in PositionsOf(did, "draftFailed") :
       IF generateArticle
       THEN /\ mpc = "done" => exitCode = 1
            /\ \A later \in (k + 1)..Len(did) : did[later] \notin ComposerSteps
       ELSE k = Len(did) => exitCode = 0

\* The generation failed, and the composer was opened and the post action
\* clicked all the same.
C15_Witness ==
    /\ mpc = "done"
    /\ generateArticle
    /\ did = <<"draftFailed", "open", "postAction">>
    /\ ~draftArticle.present
    /\ exitCode = 1

-----------------------------------------------------------------------------
(* The programmatic fallback of fillPostComposer.                          *)

\* C16: after a read-back that does not verify, fillPostComposer goes on
\* when the fallback reaches the field, and fails (throws to main, which
\* ends the run with exit code 1) when the selector finds no element any
\* more; a read-back that failed, and so reads as empty, never verifies.
C16_FallbackOrError ==
    /\ \A k \in PositionsOf(did, "titleFallback") \cup PositionsOf(did, "bodyFallback") :
          k = Len(did) => mpc \notin {"catch", "finally", "done"}
    /\ \A k \in PositionsOf(did, "titleFallbackNoElement")
                   \cup PositionsOf(did, "bodyFallbackNoElement") :
          /\ k = Len(did)
          /\ mpc \in {"catch", "finally", "done"}
          /\ mpc \in {"finally", "done"} => exitCode = 1
    /\ mpc = "verifyTitle" /\ titleValue = <<>> => titleMismatch
    /\ mpc = "verifyBody" /\ bodyTextLength = 0 =>
          bodyTooShort(bodyTextLength, draftArticle.bodyLength)

\* The title field was gone when the fallback ran, and the run went on to
\* report the draft as filled and ended with exit code 0.
C16_Witness ==
    /\ mpc = "done"
    /\ exitCode = 0
    /\ \E k \in PositionsOf(did, "titleFallbackNoElement") :
          \E later \in (k + 1)..Len(did) : did[later] = "filled"

-----------------------------------------------------------------------------
(* The classification of a line outside a code block.                      *)

\* The markers of each kind, without the whitespace that must follow.
IsMarkerOf(kind, m) ==
    CASE kind = "h3" -> m = <<"#", "#", "#">>
      [] kind = "h2" -> m \in {<<"#">>, <<"#", "#">>}
      [] kind = "quote" -> m = <<">">>
      [] kind = "ol" -> /\ Len(m) >= 2
                        /\ m[Len(m)] = "."
                        /\ \A n \in 1..(Len(m) - 1) : IsDigit(m[n])
      [] kind = "ul" -> m \in {<<"-">>, <<"*">>, <<"+">>}

\* Where a marker of the kind ends in the line: it starts after the leading
\* whitespace and whitespace follows it.
MarkerEnds(line, kind) ==
    LET first == SkipSpace(line, 1)
    IN { last \in first..(Len(line) - 1) :
            /\ IsMarkerOf(kind, SubSeq(line, first, last))
            /\ IsSpace(line[last + 1]) }

MarkerKinds == <<"h3", "h2", "quote", "ol", "ul">>

\* The first kind, in the order of the rules, whose marker the line carries,
\* with the line after the marker and its whitespace; a paragraph with the
\* whole line when there is none.
ClaimedBlock(line) ==
    LET matching == { n \in 1..Len(MarkerKinds) : MarkerEnds(line, MarkerKinds[n]) # {} }
    IN IF matching = {} THEN [kind |-> "paragraph", text |-> line]
       ELSE LET n == CHOOSE n \in matching : \A other \in matching : n <= other
                last == CHOOSE last \in MarkerEnds(line, MarkerKinds[n]) : TRUE
            IN [kind |-> MarkerKinds[n],
                text |-> SubSeq(line, SkipSpace(line, last + 1), Len(line))]

\* C17: outside a code block a line gets the kind of the first rule that
\* matches, in the order heading 3, heading 2, quote, ordered item,
\* unordered item, else paragraph; the text is the line without its leading
\* whitespace and marker, and the whole line for a paragraph.
C17_FirstMatchingRule ==
    ppc # "classify" /\ ~pInCode => pBlock = ClaimedBlock(pLine)

\* An ordered item with leading whitespace and two spaces after the marker.
C17_Witness ==
    /\ ppc = "type"
    /\ ~pInCode
    /\ pLine = <<" ", "1", "1", ".", " ", " ", "*", "*", "a">>
    /\ pBlock = [kind |-> "ol", text |-> <<"*", "*", "a">>]

-----------------------------------------------------------------------------
(* Fences and the lines of a code block.                                   *)

\* A fence line: three backquotes after the leading whitespace.
FenceLine(line) ==
    LET first == SkipSpace(line, 1)
    IN /\ first + 2 <= Len(line)
       /\ \A n \in 0..2 : line[first + n] = Backtick

\* The number of fence lines among the first n lines.
FencesBefore(n) == Cardinality({k \in 1..n : FenceLine(lines[k])})

\* The editor actions of the line that a step has just gone through.
ActionsOfStep == EditorActions(SubSeq(keys', Len(keys) + 1, Len(keys')))

\* C18: a fence line gives the code shortcut and nothing else, and turns the
\* code mode over; a line after an odd number of fences is typed as it is
\* (nothing for an empty line) and followed by one Enter, with no block
\* shortcut and no toggle, whatever markers it holds.
C18_CodeBlockVerbatim ==
    [][ i' = i + 1 =>
          LET line == lines[i + 1]
              inside == FencesBefore(i) % 2 = 1
          IN IF FenceLine(line)
             THEN /\ ActionsOfStep = <<ActBlock("code")>>
                  /\ inCodeBlock' = ~inside
             ELSE inside =>
                    /\ ActionsOfStep =
                          (IF line = <<>> THEN <<>> ELSE <<ActType(line)>>) \o <<ActEnter>>
                    /\ inCodeBlock' ]_vars

\* A fence that is never closed, a heading line, a blank line and a line
\* with inline markers after it.
C18_Witness ==
    /\ tpc = "done"
    /\ postParseInlineStyles
    /\ lines = << <<" ", Backtick, Backtick, Backtick, "a">>,
                  <<"#", "#", " ", "a">>,
                  <<"*", "*", "a", "~", "~", "b">> >>
    /\ EditorActions(keys) =
          << ActBlock("code"), ActType(<<"#", "#", " ", "a">>), ActEnter,
             ActType(<<"*", "*", "a", "~", "~", "b">>), ActEnter >>

-----------------------------------------------------------------------------
(* The block shortcut between two lines of different kinds.                *)

\* Lines i and i + 1 are typed lines outside a code block: neither is blank
\* nor a fence, and the fences before them are closed.
TypedPairAt(n) ==
    /\ n >= 1 /\ n + 1 <= Len(lines)
    /\ FencesBefore(n + 1) = FencesBefore(n - 1)
    /\ FencesBefore(n - 1) % 2 = 0
    /\ Trim(lines[n]) # <<>>
    /\ Trim(lines[n + 1]) # <<>>

KindOfLine(n) == ClaimedBlock(lines[n]).kind

\* Where the block shortcuts are among the actions of a step.
BlockActionsOfStep ==
    { n \in 1..Len(ActionsOfStep) : ActionsOfStep[n].act = "block" }

\* C19 as stated: when the kinds of two consecutive typed lines differ, the
\* second line starts with the block shortcut of its kind, for every pair of
\* kinds.
C19_ShortcutBetweenKinds ==
    [][ (i' = i + 1 /\ TypedPairAt(i) /\ KindOfLine(i) # KindOfLine(i + 1)) =>
           /\ BlockActionsOfStep = {1}
           /\ ActionsOfStep[1] = ActBlock(KindOfLine(i + 1)) ]_vars

\* C19: when the kinds of two consecutive typed lines differ, the second line
\* starts with the block shortcut of its kind and holds no other block
\* shortcut, except a paragraph line after a list item or a quote line: the
\* second Enter has left the list or the quote, the running kind is
\* paragraph already and no block shortcut is issued.
C19_ShortcutBetweenRunningKinds ==
    [][ (i' = i + 1 /\ TypedPairAt(i) /\ KindOfLine(i) # KindOfLine(i + 1)) =>
           IF KindOfLine(i) \in {"ul", "ol", "quote"} /\ KindOfLine(i + 1) = "paragraph"
           THEN BlockActionsOfStep = {}
           ELSE /\ BlockActionsOfStep = {1}
                /\ ActionsOfStep[1] = ActBlock(KindOfLine(i + 1)) ]_vars

\* A quote line, then a paragraph line with no shortcut before it, then a
\* heading line with its shortcut.
C19_Witness ==
    /\ tpc = "done"
    /\ lines = << <<">", " ", "a">>, <<"a">>, <<"#", "#", " ", "a">> >>
    /\ EditorActions(keys) =
          << ActBlock("quote"), ActType(<<"a">>), ActEnter, ActEnter,
             ActType(<<"a">>), ActEnter,
             ActBlock("h2"), ActType(<<"a">>), ActEnter >>

-----------------------------------------------------------------------------
(* The Enter presses after a line.                                         *)

\* Where the Enter presses are among the actions of a step.
EnterActionsOfStep ==
    { n \in 1..Len(ActionsOfStep) : ActionsOfStep[n] = ActEnter }

\* Line n is typed: it is no fence, and it is not a blank line outside a
\* code block.
TypedLineAt(n) ==
    /\ ~FenceLine(lines[n])
    /\ FencesBefore(n) % 2 = 1 \/ Trim(lines[n]) # <<>>

\* The kind line n is typed as.
TypedKindOf(n) == IF FencesBefore(n) % 2 = 1 THEN "code" ELSE KindOfLine(n)

\* The line after line n has another kind than line n: a blank line, a
\* fence and the end of the input count as another kind.
NextKindDiffers(n) ==
    \/ n + 1 > Len(lines)
    \/ Trim(lines[n + 1]) = <<>>
    \/ FenceLine(lines[n + 1])
    \/ KindOfLine(n + 1) # TypedKindOf(n)

\* C20: the keys of a typed line end with two Enter presses when the line is
\* a list item or a quote line and the next line has another kind, and with
\* one Enter otherwise; there is no other Enter among them.
C20_EntersAfterLine ==
    [][ (i' = i + 1 /\ TypedLineAt(i + 1)) =>
           LET enters == IF /\ TypedKindOf(i + 1) \in {"ul", "ol", "quote"}
                            /\ NextKindDiffers(i + 1)
                         THEN 2 ELSE 1
           IN EnterActionsOfStep =
                 (Len(ActionsOfStep) - enters + 1)..Len(ActionsOfStep) ]_vars

\* Two list items and an ordered item: one Enter after the first, two after
\* the second and after the third.
C20_Witness ==
    /\ tpc = "done"
    /\ postParseInlineStyles
    /\ lines = << <<"-", " ", "a">>, <<"-", " ", "a", "*", "*", "b", "*", "*">>,
                  <<"1", ".", " ", "a">> >>
    /\ EditorActions(keys) =
          << ActBlock("ul"), ActType(<<"a">>), ActEnter,
             ActType(<<"a">>), ActToggle("bold"), ActType(<<"b">>), ActToggle("bold"),
             ActEnter, ActEnter,
             ActBlock("ol"), ActType(<<"a">>), ActEnter, ActEnter >>

-----------------------------------------------------------------------------
(* A blank line outside a code block.                                      *)

\* Line n is blank and outside a code block.
BlankLineAt(n) ==
    /\ n >= 1 /\ n <= Len(lines)
    /\ Trim(lines[n]) = <<>>
    /\ FencesBefore(n) % 2 = 0

\* C21: a blank line outside a code block types nothing and issues no block
\* shortcut, and the running kind is paragraph after it; the typed line
\* that follows it starts with the block shortcut of its kind iff its kind
\* is not paragraph, whatever the kind before the blank line was.
C21_BlankLineResetsKind ==
    [][ i' = i + 1 =>
          /\ BlankLineAt(i + 1) =>
                /\ \A n \in 1..Len(ActionsOfStep) :
                      ActionsOfStep[n].act \notin {"type", "block"}
                /\ currentBlock' = "paragraph"
          /\ (BlankLineAt(i) /\ TypedLineAt(i + 1)) =>
                IF KindOfLine(i + 1) = "paragraph"
                THEN BlockActionsOfStep = {}
                ELSE /\ BlockActionsOfStep = {1}
                     /\ ActionsOfStep[1] = ActBlock(KindOfLine(i + 1)) ]_vars

\* A heading line, a blank line and a heading line of the same level: the
\* heading shortcut is issued twice.
C21_Witness ==
    /\ tpc = "done"
    /\ lines = << <<"#", "#", " ", "a">>, <<>>, <<"#", "#", " ", "a">> >>
    /\ EditorActions(keys) =
          << ActBlock("h2"), ActType(<<"a">>), ActEnter, ActEnter,
             ActBlock("h2"), ActType(<<"a">>), ActEnter >>

-----------------------------------------------------------------------------
(* The inline state at the end of a line.                                  *)

\* The number of toggles of a style among the first n editor actions.
TogglesBefore(style, n) ==
    Cardinality({k \in 1..(n - 1) : EditorAction(keys[k]) = ActToggle(style)})

\* C22: at every Enter the bold toggles issued so far are even in number and
\* so are the strike toggles: each line issues an even number of each, and
\* bold and strike are off when Enter is pressed.
C22_StylesOffAtEnter ==
    \A n \in 1..Len(keys) :
       keys[n] = KeyEnter =>
          /\ TogglesBefore("bold", n) % 2 = 0
          /\ TogglesBefore("strike", n) % 2 = 0

\* A line with one bold marker and one strike marker, neither closed.
C22_Witness ==
    /\ tpc = "done"
    /\ postParseInlineStyles
    /\ lines = << <<"*", "*", "a", "~", "~", "b">> >>
    /\ EditorActions(keys) =
          << ActToggle("bold"), ActType(<<"a">>), ActToggle("strike"), ActType(<<"b">>),
             ActToggle("bold"), ActToggle("strike"), ActEnter >>

-----------------------------------------------------------------------------
(* The handles of the locator.                                             *)

\* C23: the locator holds no handle when it queries a selector, at most
\* the handle of the candidate it is inspecting in between, and at its
\* return only the handle it returns, none when it returns null.
C23_OnlyReturnedHandleHeld ==
    /\ lpc \in {"check", "query"} => handles = {}
    /\ lpc \in {"box", "dispose"} => handles = {handle}
    /\ lpc = "done" =>
          handles = (IF result = NotFound THEN {} ELSE {result.handle})

\* The first candidate had no visible box and its handle was disposed; the
\* second one is returned.
C23_Witness ==
    /\ lpc = "done"
    /\ result.selector = 2
    /\ created = 2
    /\ handles = {2}
    /\ result.handle = 2

-----------------------------------------------------------------------------
(* Where the automatic headings go.                                        *)

\* The paragraph indexes (0-based) up to index n that get a heading of
\* level 2, and of level 3, with intervals N and M.
Level2Upto(n, N) == { j \in 0..n : j % N = 0 }
Level3Upto(n, N, M) == { j \in 0..n : M > 0 /\ j % M = 0 /\ j % N # 0 }

\* The label of a heading: the prefix, a space and the number, below 10.
LabelOf(prefix, number) == prefix \o <<" ">> \o <<DecimalDigits[number + 1]>>

\* The lines the claim gives for paragraph index n.
RECURSIVE ClaimedLines(_, _, _, _)
ClaimedLines(paragraphs, n, N, M) ==
    IF n >= Len(paragraphs) THEN <<>>
    ELSE (IF n \in Level2Upto(n, N)
          THEN << <<"#", "#", " ">> \o LabelOf(h2Prefix, Cardinality(Level2Upto(n, N))) >>
          ELSE IF n \in Level3Upto(n, N, M)
          THEN << <<"#", "#", "#", " ">>
                  \o LabelOf(h3Prefix, Cardinality(Level3Upto(n, N, M))) >>
          ELSE <<>>)
         \o <<paragraphs[n + 1]>>
         \o ClaimedLines(paragraphs, n + 1, N, M)

\* The body came back changed: headings were inserted.
HeadingsInserted == hpc \in {"second", "done"} /\ formattedBody # rawBody

-----------------------------------------------------------------------------
(* When the body fallback runs.                                            *)

\* The read-back of the body has been judged.
BodyDecided == "bodyRead" \in StepsOf(did) /\ mpc # "verifyBody"

\* The body fallback was entered.
BodyFallbackRan ==
    {"bodyFallback", "bodyFallbackNoElement"} \cap StepsOf(did) # {}

\* C25 as stated: the body fallback runs iff the trimmed read-back is shorter
\* than 0.2 of the body's length, for bodies of every length.
C25_FallbackBelowFraction ==
    BodyDecided =>
       (BodyFallbackRan <=> 5 * bodyTextLength < draftArticle.bodyLength)

\* C25: the body fallback runs iff the trimmed read-back is shorter than the
\* smaller of 30 characters and 0.2 of the body's length; for a body of more
\* than 150 characters a read-back of 30 characters or more is accepted.
C25_FallbackBelowCappedFraction ==
    BodyDecided =>
       (BodyFallbackRan <=>
           /\ bodyTextLength < 30
           /\ 5 * bodyTextLength < draftArticle.bodyLength)

\* A body of 200 characters of which 30 are read back: no fallback.
C25_Witness ==
    /\ mpc = "done"
    /\ BodyDecided
    /\ draftArticle.bodyLength = 200
    /\ bodyTextLength = 30
    /\ ~BodyFallbackRan

-----------------------------------------------------------------------------
(* The shortest quote.                                                     *)

\* C26: every quote is at least minLength characters long, a shortened one
\* with its ellipsis included.
C26_AtLeastMinLength ==
    \A n \in DOMAIN quotes : Len(quotes[n].text) >= minLength

\* minLength and maxLength are both 11 and the block of twelve characters has
\* a space as its tenth: the quote is nine characters and the ellipsis.
C26_Witness ==
    /\ qpc = "done"
    /\ minLength = 11 /\ maxLength = 11
    /\ \E n \in DOMAIN quotes : quotes[n].text = Rep("a", 9) \o <<Ellipsis>>

-----------------------------------------------------------------------------
(* The post action and the draft.                                          *)

\* C27: the post action is clicked only after the draft has been filled
\* into the composer in the same run.
C27_PostActionAfterFill ==
    \A k \in PositionsOf(did, "postAction") :
       \E before \in 1..(k - 1) : did[before] = "filled"

\* No draft was wanted, the composer was opened and the post action was
\* clicked on the empty composer.
C27_Witness ==
    /\ mpc = "done"
    /\ ~generateArticle /\ ~hasPostBody
    /\ ~draftArticle.present
    /\ did = <<"open", "postAction">>
    /\ exitCode = 0

\* A draft with both fill flags off: nothing is filled, and the post action
\* is clicked.
C27_WitnessFlagsOff ==
    /\ mpc = "done"
    /\ draftArticle.present
    /\ ~fillPostTitle /\ ~fillPostBody
    /\ "postAction" \in StepsOf(did)
    /\ "filled" \notin StepsOf(did)

-----------------------------------------------------------------------------
(* What the automatic headings leave of the body.                          *)

\* The characters of a text that are not whitespace, in order.
NonWhite(text) == SelectSeq(text, LAMBDA c : ~IsSpace(c))

\* A heading line that applyAutoHeadings inserts: the marker, the prefix
\* and a space, before the number.
IsInsertedHeading(line) ==
    \/ StartsWith(line, <<"#", "#", " ">> \o h2Prefix \o <<" ">>)
    \/ StartsWith(line, <<"#", "#", "#", " ">> \o h3Prefix \o <<" ">>)

\* The characters that are not whitespace of the lines from line n on, the
\* inserted heading lines left out.
RECURSIVE NonWhiteOfBodyLines(_, _)
NonWhiteOfBodyLines(ls, n) ==
    IF n > Len(ls) THEN <<>>
    ELSE (IF IsInsertedHeading(ls[n]) THEN <<>> ELSE NonWhite(ls[n]))
         \o NonWhiteOfBodyLines(ls, n + 1)

\* C28: when headings are inserted, the result without the inserted heading
\* lines holds the characters of the body that are not whitespace, all of
\* them, once each and in the same order.
C28_BodyKeptUnderHeadings ==
    HeadingsInserted =>
       NonWhiteOfBodyLines(SplitLines(formattedBody), 1) = NonWhite(rawBody)

\* A body that starts with a full stop: the full stop is not in the result.
C28_Witness ==
    /\ hpc = "done"
    /\ rawBody = <<".", "a", ".", "a">>
    /\ h2Every = 1
    /\ formattedBody = <<"#", "#", " ", "H", " ", "1", "\n", "\n", "a", ".", "\n", "\n", "#", "#", " ", "H", " ", "2", "\n", "\n", "a">>

-----------------------------------------------------------------------------
(* Selector priority and the page as it is at the return.                  *)

\* C29 as stated: when a pair is returned, no candidate before it in the
\* list is visible with a box of positive size on the page at that moment.
C29_PriorityAgainstLivePage ==
    (lpc = "done" /\ result # NotFound) =>
       \A j \in 1..Len(selectors) :
          selectors[j] < result.selector => elements[selectors[j]] # "visible"

\* C29: when a pair is returned, its element was visible with a box of
\* positive size when it was inspected, and each candidate before it was
\* inspected earlier in the same round and was not; a candidate before it
\* that is visible on the page at the return became so after its
\* inspection.
C29_PriorityAtInspection ==
    (lpc = "done" /\ result # NotFound) =>
       LET k == Len(inspected)
       IN /\ k >= 1
          /\ inspected[k].selector = result.selector
          /\ inspected[k].state = "visible"
          /\ \A j \in 1..(k - 1) :
                /\ inspected[j].selector = selectors[j]
                /\ inspected[j].state # "visible"
                /\ elements[selectors[j]] = "visible" => pageChanges >= 1

\* The first candidate was absent when it was inspected and is visible when
\* the second one is returned.
C29_Witness ==
    /\ lpc = "done"
    /\ result.selector = 2
    /\ inspected[1].state = "absent"
    /\ elements[1] = "visible"
    /\ elements[2] = "visible"

-----------------------------------------------------------------------------
(* The body within its length limit.                                       *)

\* The paragraphs of the body: the pieces between blank lines, trimmed, the
\* empty ones left out.
ParagraphsOfBody == TrimParts(SplitBlankLines(bodyWithHeadings, 1, <<>>))

\* The first n paragraphs joined by blank lines.
JoinedParagraphs(n) == Join(SubSeq(ParagraphsOfBody, 1, n), <<"\n", "\n">>)

\* The numbers of leading paragraphs that fit the limit when joined.
FittingPrefixes ==
    { n \in 1..Len(ParagraphsOfBody) : Len(JoinedParagraphs(n)) <= articleCharMax }

\* The text is what is left of the first articleCharMax characters of the
\* body when the whitespace at both ends is taken away.
IsHardCut(text) ==
    \E first \in 1..(articleCharMax + 1), last \in 0..articleCharMax :
       /\ text = SubSeq(bodyWithHeadings, first, last)
       /\ \A n \in 1..(first - 1) : IsSpace(bodyWithHeadings[n])
       /\ \A n \in (last + 1)..articleCharMax : IsSpace(bodyWithHeadings[n])
       /\ first <= last => ~IsSpace(bodyWithHeadings[first]) /\ ~IsSpace(bodyWithHeadings[last])

\* C30: the result is never longer than the limit; a body within the limit
\* comes back unchanged; otherwise, when the first paragraph fits, the
\* result is the longest prefix of whole paragraphs, joined by blank lines,
\* that fits, and when it does not fit the result is the body cut at the
\* limit, without the whitespace at the ends of the cut.
C30_ClampedBody ==
    cpc = "done" =>
       /\ Len(trimmedBody) <= articleCharMax
       /\ IF Len(bodyWithHeadings) <= articleCharMax
          THEN trimmedBody = bodyWithHeadings
          ELSE IF 1 \in FittingPrefixes
          THEN \E n \in FittingPrefixes :
                  /\ \A other \in FittingPrefixes : other <= n
                  /\ trimmedBody = JoinedParagraphs(n)
          ELSE IsHardCut(trimmedBody)

\* Three paragraphs of which two fit the limit of four characters.
C30_Witness ==
    /\ cpc = "done"
    /\ bodyWithHeadings = <<"a", "\n", "\n", "a", "\n", "\n", "a">>
    /\ articleCharMax = 4
    /\ trimmedBody = <<"a", "\n", "\n", "a">>

=============================================================================
